---------------------------- MODULE Spec2Model ----------------------------
(***************************************************************************)
(* Model of the Bedrock-agent -> MCP adapter: lambda_handler,              *)
(* AWSApiMCPAdapter.handle_request, BedrockParameterProcessor,             *)
(* RouteRegistry and the route handlers, MCPClient (direct JSON-RPC path   *)
(* and legacy streaming path) and BedrockResponseFormatter.                *)
(*                                                                         *)
(* Conventions.  A Python str is a sequence of atoms (TLA+ strings); the   *)
(* empty str is << >>.  A JSON / Python value is a record of one fixed     *)
(* shape [t, n, s, keys, items], so that any two values can be compared.   *)
(* Time is counted in the units of the timeouts (seconds).                 *)
(***************************************************************************)
EXTENDS Integers, Sequences, FiniteSets, TLC

(***************************************************************************)
(* Python / JSON values                                                    *)
(***************************************************************************)
Val(t, n, s, keys, items) ==
    [t |-> t, n |-> n, s |-> s, keys |-> keys, items |-> items]

None == Val("null", 0, << >>, << >>, << >>)
JBool(b) == Val("bool", IF b THEN 1 ELSE 0, << >>, << >>, << >>)
JInt(n) == Val("int", n, << >>, << >>, << >>)
JStr(s) == Val("str", 0, s, << >>, << >>)
\* the str made of the one atom a
S(a) == JStr(<<a>>)
JList(items) == Val("list", 0, << >>, << >>, items)
\* a float: n is its integer part and s its repr ("inf" and "nan" have no
\* integer part)
JFloat(n, s) == Val("float", n, s, << >>, << >>)
\* a dict keeps its keys in insertion order; keys[i] (a value) maps to items[i]
JObj(keys, items) == Val("obj", 0, << >>, keys, items)
EmptyDict == JObj(<< >>, << >>)

\* Python truthiness of a value (`x or y`, `if x`, `not x`)
Truthy(v) ==
    CASE v.t = "null" -> FALSE
      [] v.t = "bool" -> v.n = 1
      [] v.t = "int" -> v.n # 0
      [] v.t = "float" -> v.s # <<"0.0">>
      [] v.t = "str" -> v.s # << >>
      [] v.t = "list" -> v.items # << >>
      [] v.t = "obj" -> v.keys # << >>
      [] OTHER -> TRUE

\* `x or y`
PyOr(x, y) == IF Truthy(x) THEN x ELSE y

HasKey(d, k) == d.t = "obj" /\ \E i \in 1..Len(d.keys) : d.keys[i] = k

\* dict.get(k, default) on a dict
DictGet(d, k, default) ==
    IF HasKey(d, k)
    THEN d.items[CHOOSE i \in 1..Len(d.keys) : d.keys[i] = k]
    ELSE default

\* variant: d.setdefault(k, v), which keeps the value a key already has
DictSetDefault(d, k, v) ==
    IF HasKey(d, k) THEN d ELSE JObj(Append(d.keys, k), Append(d.items, v))

\* d[k] = v : overwrite in place, or append a new key
DictSet(d, k, v) ==
    IF HasKey(d, k)
    THEN LET i == CHOOSE j \in 1..Len(d.keys) : d.keys[j] = k
         IN JObj(d.keys, [d.items EXCEPT ![i] = v])
    ELSE JObj(Append(d.keys, k), Append(d.items, v))

(***************************************************************************)
(* json.dumps(value, separators=(',', ':')) writes the text of a value and *)
(* json.loads reads it back.  A text is a str: its atoms are the JSON      *)
(* punctuation, the literals, the decimal digits, and for a string the     *)
(* quote atom around the (escaped) atoms of the string.                    *)
(***************************************************************************)
Quote == "\""
EscapedQuote == "\\\""
Backslash == "\\"
EscapedBackslash == "\\\\"

EscapeAtom(a) ==
    CASE a = Quote -> EscapedQuote
      [] a = Backslash -> EscapedBackslash
      [] OTHER -> a
UnescapeAtom(a) ==
    CASE a = EscapedQuote -> Quote
      [] a = EscapedBackslash -> Backslash
      [] OTHER -> a

Digits == {"0", "1", "2", "3", "4", "5", "6", "7", "8", "9"}
DigitValue(a) ==
    CASE a = "0" -> 0 [] a = "1" -> 1 [] a = "2" -> 2 [] a = "3" -> 3
      [] a = "4" -> 4 [] a = "5" -> 5 [] a = "6" -> 6 [] a = "7" -> 7
      [] a = "8" -> 8 [] a = "9" -> 9
DigitAtom(d) == CHOOSE a \in Digits : DigitValue(a) = d

RECURSIVE DigitsValue(_, _)
\* the number written by a run of decimal digits
DigitsValue(s, acc) ==
    IF s = << >> THEN acc ELSE DigitsValue(Tail(s), 10 * acc + DigitValue(Head(s)))

RECURSIVE DigitsOf(_)
\* the decimal digits of n >= 0
DigitsOf(n) ==
    IF n < 10 THEN <<DigitAtom(n)>>
    ELSE Append(DigitsOf(n \div 10), DigitAtom(n % 10))

\* str(n) of an int
IntStr(n) == IF n < 0 THEN <<"-">> \o DigitsOf(-n) ELSE DigitsOf(n)

\* the text of a JSON string
QuotedStr(s) == <<Quote>> \o [i \in 1..Len(s) |-> EscapeAtom(s[i])] \o <<Quote>>

\* json.dumps writes a str key as it is and coerces an int, bool or None key
\* to its JSON text
KeyText(k) ==
    CASE k.t = "str" -> QuotedStr(k.s)
      [] k.t = "int" -> QuotedStr(IntStr(k.n))
      [] k.t = "bool" -> QuotedStr(<<IF k.n = 1 THEN "true" ELSE "false">>)
      [] k.t = "null" -> QuotedStr(<<"null">>)

RECURSIVE Dumps(_)
RECURSIVE DumpsItems(_)
RECURSIVE DumpsMembers(_, _)

DumpsItems(items) ==
    IF items = << >> THEN << >>
    ELSE Dumps(Head(items)) \o
         (IF Len(items) > 1 THEN <<",">> \o DumpsItems(Tail(items))
          ELSE << >>)

DumpsMembers(keys, items) ==
    IF keys = << >> THEN << >>
    ELSE KeyText(Head(keys)) \o <<":">> \o Dumps(Head(items)) \o
         (IF Len(keys) > 1
          THEN <<",">> \o DumpsMembers(Tail(keys), Tail(items))
          ELSE << >>)

Dumps(v) ==
    CASE v.t = "null" -> <<"null">>
      [] v.t = "bool" -> <<IF v.n = 1 THEN "true" ELSE "false">>
      [] v.t = "int" -> IntStr(v.n)
      [] v.t = "str" -> QuotedStr(v.s)
      [] v.t = "list" -> <<"[">> \o DumpsItems(v.items) \o <<"]">>
      [] v.t = "obj" -> <<"{">> \o DumpsMembers(v.keys, v.items) \o <<"}">>

\* A parse result: the value read and the text left; ok = FALSE on a syntax
\* error.
Parsed(ok, v, rest) == [ok |-> ok, v |-> v, rest |-> rest]
ParseError == Parsed(FALSE, None, << >>)

RECURSIVE CountWhile(_, _)
\* the length of the longest prefix of s made of atoms in `set`
CountWhile(s, set) ==
    IF s # << >> /\ Head(s) \in set THEN 1 + CountWhile(Tail(s), set) ELSE 0

RECURSIVE CountUntil(_, _)
\* the number of atoms of s before the first atom a (Len(s) when there is none)
CountUntil(s, a) ==
    IF s # << >> /\ Head(s) # a THEN 1 + CountUntil(Tail(s), a) ELSE 0

\* after the opening quote: the string up to the closing quote
ParseString(toks) ==
    LET n == CountUntil(toks, Quote)
    IN IF n = Len(toks) THEN ParseError
       ELSE Parsed(TRUE, JStr([i \in 1..n |-> UnescapeAtom(toks[i])]),
                   SubSeq(toks, n + 2, Len(toks)))

\* an optional minus sign and a run of digits
ParseNumber(toks) ==
    LET neg == Head(toks) = "-"
        body == IF neg THEN Tail(toks) ELSE toks
        n == CountWhile(body, Digits)
    IN IF n = 0 THEN ParseError
       ELSE Parsed(TRUE,
                   JInt((IF neg THEN -1 ELSE 1) * DigitsValue(SubSeq(body, 1, n), 0)),
                   SubSeq(body, n + 1, Len(body)))

RECURSIVE ParseValue(_)
RECURSIVE ParseItems(_, _)
RECURSIVE ParseMembers(_, _, _)

\* after "[" or after a ",": the items of a list up to the closing "]"
ParseItems(toks, acc) ==
    LET p == ParseValue(toks)
    IN IF ~p.ok \/ p.rest = << >> THEN ParseError
       ELSE IF Head(p.rest) = "]"
            THEN Parsed(TRUE, JList(Append(acc, p.v)), Tail(p.rest))
       ELSE IF Head(p.rest) = ","
            THEN ParseItems(Tail(p.rest), Append(acc, p.v))
       ELSE ParseError

\* after "{" or after a ",": the members of an object up to the closing "}"
ParseMembers(toks, keys, items) ==
    IF toks = << >> \/ Head(toks) # Quote THEN ParseError
    ELSE LET k == ParseString(Tail(toks))
         IN IF ~k.ok \/ k.rest = << >> \/ Head(k.rest) # ":" THEN ParseError
            ELSE LET p == ParseValue(Tail(k.rest))
                     d == DictSet(JObj(keys, items), k.v, p.v)
                 IN IF ~p.ok \/ p.rest = << >> THEN ParseError
                    ELSE IF Head(p.rest) = "}" THEN Parsed(TRUE, d, Tail(p.rest))
                    ELSE IF Head(p.rest) = ","
                         THEN ParseMembers(Tail(p.rest), d.keys, d.items)
                    ELSE ParseError

ParseValue(toks) ==
    IF toks = << >> THEN ParseError
    ELSE LET h == Head(toks)
             r == Tail(toks)
         IN CASE h = "null" -> Parsed(TRUE, None, r)
              [] h = "true" -> Parsed(TRUE, JBool(TRUE), r)
              [] h = "false" -> Parsed(TRUE, JBool(FALSE), r)
              [] h = "-" \/ h \in Digits -> ParseNumber(toks)
              [] h = Quote -> ParseString(r)
              [] h = "[" ->
                   IF r # << >> /\ Head(r) = "]"
                   THEN Parsed(TRUE, JList(<< >>), Tail(r))
                   ELSE ParseItems(r, << >>)
              [] h = "{" ->
                   IF r # << >> /\ Head(r) = "}"
                   THEN Parsed(TRUE, EmptyDict, Tail(r))
                   ELSE ParseMembers(r, << >>, << >>)
              [] OTHER -> ParseError

\* json.loads(text): the whole text must be one value
Loads(toks) ==
    LET p == ParseValue(toks)
    IN IF p.ok /\ p.rest = << >> THEN p ELSE ParseError

(***************************************************************************)
(* adapter_types.py: ErrorType and MCPResponse                             *)
(***************************************************************************)
VALIDATION_ERROR == "validation_error"
CONNECTION_ERROR == "connection_error"
MCP_SERVER_ERROR == "mcp_server_error"
PROCESSING_ERROR == "processing_error"
ErrorType == {VALIDATION_ERROR, CONNECTION_ERROR, MCP_SERVER_ERROR, PROCESSING_ERROR}
\* error_type of a response built without one (the dataclass default None)
NoErrorType == "None"

\* MCPResponse(success, data, error, error_type); an absent field is None
MCPResponse(success, data, error, error_type) ==
    [success |-> success, data |-> data, error |-> error, error_type |-> error_type]
success_response(data) == MCPResponse(TRUE, data, None, NoErrorType)
error_response(error, error_type) == MCPResponse(FALSE, None, error, error_type)
\* no result yet
NoResponse == MCPResponse(FALSE, None, None, "unset")

(***************************************************************************)
(* response_formatter.py: BedrockResponseFormatter                         *)
(***************************************************************************)
MESSAGE_VERSION == S("1.0")

Envelope(action_group, api_path, http_method, status_code, body) ==
    [messageVersion |-> MESSAGE_VERSION,
     response |-> [actionGroup |-> action_group,
                   apiPath |-> api_path,
                   httpMethod |-> http_method,
                   httpStatusCode |-> status_code,
                   responseBody |-> [application_json |-> [body |-> body]]]]

format_success_response(action_group, api_path, http_method, data) ==
    Envelope(action_group, api_path, http_method, 200, JStr(Dumps(data)))

format_error_response(action_group, api_path, http_method, error_message, status_code) ==
    Envelope(action_group, api_path, http_method, status_code,
             JStr(Dumps(JObj(<<S("error")>>, <<error_message>>))))

\* (action_group, api_path, http_method) of the event, '' for a missing field
extract_request_info(event) ==
    [action_group |-> DictGet(event, S("actionGroup"), JStr(<< >>)),
     api_path |-> DictGet(event, S("apiPath"), JStr(<< >>)),
     http_method |-> DictGet(event, S("httpMethod"), JStr(<< >>))]

\* the body string of an envelope
BodyOf(env) == env.response.responseBody.application_json.body
\* no envelope yet
NoEnvelope == Envelope(None, None, None, 0, None)

(***************************************************************************)
(* Exceptions in pure code: an outcome is a value or a raised exception.   *)
(***************************************************************************)
Ok(v) == [raised |-> FALSE, exc |-> "", v |-> v]
Raise(exc) == [raised |-> TRUE, exc |-> exc, v |-> None]

(***************************************************************************)
(* parameter_processor.py: BedrockParameterProcessor                       *)
(***************************************************************************)
\* class attribute TYPE_CONVERTERS: field name -> converter
TYPE_CONVERTERS ==
    [k \in {S("max_results"), S("max_items"), S("timeout"), S("retries")} |-> "int"]

\* class attribute BOOLEAN_FIELDS
BOOLEAN_FIELDS ==
    {S("dry_run"), S("include_all"), S("include_linked_accounts"),
     S("recursive"), S("force"), S("verbose")}

RECURSIVE LStrip(_, _)
\* str.lstrip(chars)
LStrip(s, chars) ==
    IF s # << >> /\ Head(s) \in chars THEN LStrip(Tail(s), chars) ELSE s

RECURSIVE RStrip(_, _)
RStrip(s, chars) ==
    IF s # << >> /\ s[Len(s)] \in chars
    THEN RStrip(SubSeq(s, 1, Len(s) - 1), chars) ELSE s

\* int(value): an int as it is, a bool as 0/1, a float truncated
\* (OverflowError for an infinity, ValueError for nan), a str of optional
\* blanks, an optional sign and decimal digits as its number; ValueError for
\* any other str, TypeError for None, a list or a dict
PyInt(value) ==
    CASE value.t = "int" -> Ok(value)
      [] value.t = "bool" -> Ok(JInt(value.n))
      [] value.t = "float" ->
           IF value.s \in {<<"inf">>, <<"-inf">>} THEN Raise("OverflowError")
           ELSE IF value.s = <<"nan">> THEN Raise("ValueError")
           ELSE Ok(JInt(value.n))
      [] value.t = "str" ->
           LET core == RStrip(LStrip(value.s, {" "}), {" "})
               signed == core # << >> /\ Head(core) \in {"-", "+"}
               digits == IF signed THEN Tail(core) ELSE core
           IN IF digits # << >> /\ \A i \in 1..Len(digits) : digits[i] \in Digits
              THEN Ok(JInt((IF signed /\ Head(core) = "-" THEN -1 ELSE 1)
                           * DigitsValue(digits, 0)))
              ELSE Raise("ValueError")
      [] OTHER -> Raise("TypeError")

\* the converter registered under a name, applied to a value
ApplyConverter(converter, value) ==
    CASE converter = "int" -> PyInt(value)

LowerAtom(a) ==
    CASE a = "T" -> "t" [] a = "R" -> "r" [] a = "U" -> "u" [] a = "E" -> "e"
      [] a = "Y" -> "y" [] a = "S" -> "s" [] a = "F" -> "f" [] a = "A" -> "a"
      [] a = "L" -> "l" [] a = "N" -> "n" [] a = "O" -> "o"
      [] OTHER -> a

\* str.lower()
Lower(s) == [i \in 1..Len(s) |-> LowerAtom(s[i])]

\* variant: the words are compared without value.lower()
ConvertToBooleanCaseSensitive(value) ==
    IF value.t = "str"
    THEN IF value.s \in {<<"t", "r", "u", "e">>, <<"1">>, <<"y", "e", "s">>}
         THEN JBool(TRUE)
         ELSE IF value.s \in {<<"f", "a", "l", "s", "e">>, <<"0">>, <<"n", "o">>}
              THEN JBool(FALSE)
              ELSE value
    ELSE value

\* BedrockParameterProcessor._convert_to_boolean
_convert_to_boolean(value) ==
    IF value.t = "str"
    THEN IF Lower(value.s) \in {<<"t", "r", "u", "e">>, <<"1">>, <<"y", "e", "s">>}
         THEN JBool(TRUE)
         ELSE IF Lower(value.s) \in {<<"f", "a", "l", "s", "e">>, <<"0">>, <<"n", "o">>}
              THEN JBool(FALSE)
              ELSE value
    ELSE value

\* a list or a dict cannot be hashed: `name in {...}` raises TypeError
Hashable(v) == v.t \notin {"list", "obj"}

\* the outcome is the new params_dict
_convert_and_store_param(converters, booleans, name, value, params_dict) ==
    IF ~Hashable(name) THEN Raise("TypeError")
    ELSE IF name \in DOMAIN converters
    THEN LET c == ApplyConverter(converters[name], value)
         IN IF c.raised
            THEN IF c.exc \in {"ValueError", "TypeError"}
                 THEN Ok(DictSet(params_dict, name, value))
                 ELSE c
            ELSE Ok(DictSet(params_dict, name, c.v))
    ELSE IF name \in booleans
    THEN Ok(DictSet(params_dict, name, _convert_to_boolean(value)))
    ELSE Ok(DictSet(params_dict, name, value))

RECURSIVE StoreAll(_, _, _, _)
\* the loop body of _process_parameter_list over the items of a list
StoreAll(converters, booleans, items, params_dict) ==
    IF items = << >> THEN Ok(params_dict)
    ELSE LET param == Head(items)
         IN \* step is the dict after this item, computed once; the loop goes on
            CHOOSE r \in
              {IF step.raised THEN step
               ELSE StoreAll(converters, booleans, Tail(items), step.v) :
                 step \in {IF param.t = "obj" /\ HasKey(param, S("name"))
                              /\ HasKey(param, S("value"))
                           THEN _convert_and_store_param(
                                    converters, booleans,
                                    DictGet(param, S("name"), None),
                                    DictGet(param, S("value"), None), params_dict)
                           ELSE Ok(params_dict)}} : TRUE

\* `for param in parameters`: the items of a list; the characters of a str and
\* the keys of a dict are no {name, value} dicts and store nothing; any other
\* object is not iterable
_process_parameter_list(converters, booleans, parameters, params_dict) ==
    CASE parameters.t = "list" ->
           StoreAll(converters, booleans, parameters.items, params_dict)
      [] parameters.t \in {"str", "obj"} -> Ok(params_dict)
      [] OTHER -> Raise("TypeError")

\* x.get(...) on an object that is no dict raises AttributeError
_process_request_body(converters, booleans, request_body, params_dict) ==
    IF request_body.t # "obj" THEN Raise("AttributeError")
    ELSE LET content == DictGet(request_body, S("content"), EmptyDict)
         IN IF content.t # "obj" THEN Raise("AttributeError")
            ELSE LET json_content == DictGet(content, S("application/json"), None)
                 IN IF ~Truthy(json_content) THEN Ok(params_dict)
                    ELSE IF json_content.t = "obj"
                            /\ HasKey(json_content, S("properties"))
                    THEN LET properties_list ==
                                 DictGet(json_content, S("properties"), None)
                         IN IF properties_list.t = "list"
                            THEN _process_parameter_list(
                                     converters, booleans, properties_list,
                                     params_dict)
                            ELSE Ok(params_dict)
                    ELSE IF json_content.t = "list"
                    THEN _process_parameter_list(
                             converters, booleans, json_content, params_dict)
                    ELSE Ok(params_dict)

\* clock is the str of int(time.time())
_create_default_context(event, clock) ==
    LET agent == DictGet(event, S("agent"), EmptyDict)
    IN IF agent.t # "obj" THEN Raise("AttributeError")
       ELSE Ok(JObj(
                <<S("request_id"), S("source"), S("session_id"), S("agent_id")>>,
                <<DictGet(event, S("requestId"),
                          DictGet(event, S("messageId"), JStr(<<"req-">> \o clock))),
                  S("bedrock-agent"),
                  DictGet(event, S("sessionId"), S("default-session")),
                  DictGet(agent, S("id"), S("unknown-agent"))>>))

\* p1 is params_dict after the parameter list, p2 after the request body, each
\* computed once
process_parameters(converters, booleans, event, clock) ==
    LET parameters == DictGet(event, S("parameters"), JList(<< >>))
        request_body == DictGet(event, S("requestBody"), EmptyDict)
    IN CHOOSE r \in
         {IF p2.raised THEN p2
          ELSE IF ~HasKey(p2.v, S("ctx"))
          THEN LET ctx == _create_default_context(event, clock)
               IN IF ctx.raised THEN ctx ELSE Ok(DictSet(p2.v, S("ctx"), ctx.v))
          ELSE p2 :
            p2 \in UNION
              {{IF p1.raised THEN p1
                ELSE IF Truthy(request_body)
                THEN _process_request_body(converters, booleans, request_body, p1.v)
                ELSE p1} :
                  p1 \in {IF Truthy(parameters)
                          THEN _process_parameter_list(converters, booleans,
                                                       parameters, EmptyDict)
                          ELSE Ok(EmptyDict)}}} : TRUE

(***************************************************************************)
(* route_handlers.py: the handlers and RouteRegistry                       *)
(***************************************************************************)
Handler(kind, tool_name, rest_style) ==
    [kind |-> kind, tool_name |-> tool_name, rest_style |-> rest_style]
ToolCallHandler(tool_name, rest_style) == Handler("ToolCallHandler", tool_name, rest_style)
ListToolsHandler == Handler("ListToolsHandler", None, FALSE)
HealthCheckHandler == Handler("HealthCheckHandler", None, FALSE)
\* any other subclass of the abstract RouteHandler, registered with add_route
CustomHandler == Handler("CustomHandler", None, FALSE)
\* dict.get found nothing
NoHandler == Handler("None", None, FALSE)

\* the str "/" + name
Path(name) == JStr(<<"/", name>>)

\* variant: /health is bound to the handler that probes describe_log_groups
DefaultRoutesWithHealthProbe ==
    LET tools == {"describe_log_groups", "analyze_log_group", "get_metric_data",
                  "get_metric_metadata", "get_recommended_metric_alarms",
                  "get_active_alarms", "get_alarm_history"}
        route == [t \in tools |->
                    CASE t = "describe_log_groups" -> "describe-log-groups"
                      [] t = "analyze_log_group" -> "analyze-log-group"
                      [] t = "get_metric_data" -> "get-metric-data"
                      [] t = "get_metric_metadata" -> "get-metric-metadata"
                      [] t = "get_recommended_metric_alarms" ->
                           "get-recommended-metric-alarms"
                      [] t = "get_active_alarms" -> "get-active-alarms"
                      [] t = "get_alarm_history" -> "get-alarm-history"]
    IN [k \in {Path(route[t]) : t \in tools} \cup {Path("list-tools"), Path("health")} |->
          IF k = Path("list-tools") THEN ListToolsHandler
          ELSE IF k = Path("health") THEN HealthCheckHandler
          ELSE ToolCallHandler(S(CHOOSE t \in tools : Path(route[t]) = k), TRUE)]

\* RouteRegistry.__init__: self._routes
DefaultRoutes ==
    LET tool == [p \in {"describe-log-groups", "analyze-log-group", "get-metric-data",
                        "get-metric-metadata", "get-recommended-metric-alarms",
                        "get-active-alarms", "get-alarm-history"} |->
                   CASE p = "describe-log-groups" -> "describe_log_groups"
                     [] p = "analyze-log-group" -> "analyze_log_group"
                     [] p = "get-metric-data" -> "get_metric_data"
                     [] p = "get-metric-metadata" -> "get_metric_metadata"
                     [] p = "get-recommended-metric-alarms" ->
                          "get_recommended_metric_alarms"
                     [] p = "get-active-alarms" -> "get_active_alarms"
                     [] p = "get-alarm-history" -> "get_alarm_history"]
    IN [k \in {Path(p) : p \in DOMAIN tool} \cup {Path("list-tools"), Path("health")} |->
          IF k \in {Path("list-tools"), Path("health")}
          THEN ListToolsHandler
          ELSE ToolCallHandler(S(tool[k.s[2]]), TRUE)]

\* self._routes.get(key)
RoutesGet(routes, key) == IF key \in DOMAIN routes THEN routes[key] ELSE NoHandler

RECURSIVE Replace(_, _, _)
\* str.replace(old, new): every occurrence, left to right, without overlap
Replace(s, old, new) ==
    IF Len(s) < Len(old) THEN s
    ELSE IF SubSeq(s, 1, Len(old)) = old
         THEN new \o Replace(SubSeq(s, Len(old) + 1, Len(s)), old, new)
         ELSE <<Head(s)>> \o Replace(Tail(s), old, new)

\* the normalized_path of get_handler, for a str api_path
NormalizePath(s) ==
    LET stripped == LStrip(Replace(Replace(s, <<"CloudWatchMCP", "/", "/">>, << >>),
                                   <<"CloudWatchMCP", "/">>, << >>), {"/"})
    IN IF ~(stripped # << >> /\ Head(stripped) = "/")
       THEN <<"/">> \o stripped
       ELSE stripped

\* variant: the normalized path is looked up before the raw one
GetHandlerNormalizedFirst(routes, api_path) ==
    IF api_path.t # "str" THEN Raise("AttributeError")
    ELSE LET first == RoutesGet(routes, JStr(NormalizePath(api_path.s)))
         IN [raised |-> FALSE, exc |-> "",
             v |-> IF first # NoHandler THEN first ELSE RoutesGet(routes, api_path)]

\* RouteRegistry.get_handler: api_path.replace raises AttributeError when
\* api_path is no str
get_handler(routes, api_path) ==
    IF api_path.t # "str" THEN Raise("AttributeError")
    ELSE LET normalized_path == JStr(NormalizePath(api_path.s))
             first == RoutesGet(routes, api_path)
         IN [raised |-> FALSE, exc |-> "",
             v |-> IF first # NoHandler THEN first
                   ELSE RoutesGet(routes, normalized_path)]

\* RouteRegistry.add_route
add_route(routes, api_path, handler) ==
    [k \in DOMAIN routes \cup {api_path} |-> IF k = api_path THEN handler ELSE routes[k]]

\* RouteRegistry.remove_route: the routes left
remove_route(routes, api_path) ==
    [k \in DOMAIN routes \ {api_path} |-> routes[k]]

(***************************************************************************)
(* adapter.py: AWSApiMCPAdapter, the parts without suspension points       *)
(***************************************************************************)
\* variant: a status table without the ValidationError and ConnectionError rows
StatusWithoutClientRows(error_type) ==
    CASE error_type = MCP_SERVER_ERROR -> 503
      [] OTHER -> 500

_get_status_code_for_error(error_type) ==
    CASE error_type = VALIDATION_ERROR -> 400
      [] error_type = CONNECTION_ERROR -> 502
      [] error_type = MCP_SERVER_ERROR -> 503
      [] error_type = PROCESSING_ERROR -> 500
      [] OTHER -> 500

_get_generic_error_message(error_type) ==
    CASE error_type = VALIDATION_ERROR -> S("Invalid request parameters")
      [] error_type = CONNECTION_ERROR -> S("Service temporarily unavailable")
      [] error_type = MCP_SERVER_ERROR -> S("External service error")
      [] error_type = PROCESSING_ERROR -> S("Request processing failed")
      [] OTHER -> S("Internal server error")

\* variant: a not-found envelope that names the normalized path
NotFoundOfNormalizedPath(action_group, api_path, http_method) ==
    format_error_response(action_group, api_path, http_method,
                          JStr(<<"Unknown API path: ">> \o NormalizePath(api_path.s)), 404)

\* f"Unknown API path: {api_path}"
_format_not_found_response(action_group, api_path, http_method) ==
    format_error_response(action_group, api_path, http_method,
                          JStr(<<"Unknown API path: ">> \o api_path.s), 404)

\* variant: a handler error envelope that carries the internal message
HandlerErrorWithInternalMessage(action_group, api_path, http_method, result) ==
    format_error_response(action_group, api_path, http_method,
                          result.error,
                          _get_status_code_for_error(result.error_type))

_format_handler_error_response(action_group, api_path, http_method, result) ==
    format_error_response(action_group, api_path, http_method,
                          _get_generic_error_message(result.error_type),
                          _get_status_code_for_error(result.error_type))

\* status_code is left to its default, 500
_handle_unexpected_error(action_group, api_path, http_method) ==
    format_error_response(action_group, api_path, http_method,
                          S("Internal server error"), 500)

\* the except block of handle_request: last_action_group, last_api_path and
\* last_http_method are attributes nothing sets, so getattr yields ''
CatchAll ==
    _handle_unexpected_error(JStr(<< >>), JStr(<< >>), JStr(<< >>))

\* the formatting branch of handle_request for a handler result
FormatResult(action_group, api_path, http_method, result) ==
    IF result.success
    THEN format_success_response(action_group, api_path, http_method,
                                 PyOr(result.data, EmptyDict))
    ELSE _format_handler_error_response(action_group, api_path, http_method, result)

(***************************************************************************)
(* lambda_function.py                                                      *)
(***************************************************************************)
_create_configuration_error_response(event) ==
    LET info == extract_request_info(event)
    IN format_error_response(info.action_group, info.api_path, info.http_method,
                             S("Service configuration error"), 500)

_create_fatal_error_response(event) ==
    LET info == extract_request_info(event)
    IN format_error_response(info.action_group, info.api_path, info.http_method,
                             S("Internal server error"), 500)

(***************************************************************************)
(* mcp_client.py: MCPClient, the parts without suspension points           *)
(***************************************************************************)
\* endpoint_map of connect_and_execute and call_jsonrpc_http_endpoint
endpoint_map ==
    [t \in {S("describe_log_groups"), S("analyze_log_group"), S("get_metric_data"),
            S("get_metric_metadata"), S("get_recommended_metric_alarms"),
            S("get_active_alarms"), S("get_alarm_history")} |->
       CASE t = S("describe_log_groups") -> Path("describe-log-groups")
         [] t = S("analyze_log_group") -> Path("analyze-log-group")
         [] t = S("get_metric_data") -> Path("get-metric-data")
         [] t = S("get_metric_metadata") -> Path("get-metric-metadata")
         [] t = S("get_recommended_metric_alarms") ->
              Path("get-recommended-metric-alarms")
         [] t = S("get_active_alarms") -> Path("get-active-alarms")
         [] t = S("get_alarm_history") -> Path("get-alarm-history")]

\* `path = endpoint_map.get(tool_name)` followed by `if path:`
UsesDirectPath(tool_name) == tool_name \in DOMAIN endpoint_map

RECURSIVE PyRepr(_)
RECURSIVE ReprItems(_)
RECURSIVE ReprMembers(_, _)
\* repr(value), as str() of a list or a dict writes its items
PyRepr(v) ==
    CASE v.t = "null" -> <<"None">>
      [] v.t = "bool" -> <<IF v.n = 1 THEN "True" ELSE "False">>
      [] v.t = "int" -> IntStr(v.n)
      [] v.t = "str" -> <<"'">> \o v.s \o <<"'">>
      [] v.t = "list" -> <<"[">> \o ReprItems(v.items) \o <<"]">>
      [] v.t = "obj" -> <<"{">> \o ReprMembers(v.keys, v.items) \o <<"}">>
ReprItems(items) ==
    IF items = << >> THEN << >>
    ELSE PyRepr(Head(items)) \o
         (IF Len(items) > 1 THEN <<",", " ">> \o ReprItems(Tail(items)) ELSE << >>)
ReprMembers(keys, items) ==
    IF keys = << >> THEN << >>
    ELSE PyRepr(Head(keys)) \o <<":", " ">> \o PyRepr(Head(items)) \o
         (IF Len(keys) > 1
          THEN <<",", " ">> \o ReprMembers(Tail(keys), Tail(items))
          ELSE << >>)

\* str(value): a str is itself, anything else is written as repr writes it
PyStr(v) == IF v.t = "str" THEN v ELSE JStr(PyRepr(v))

\* `try: data = await resp.json() / except Exception: data = await resp.text()`
JsonOrText(text) ==
    LET p == Loads(text) IN IF p.ok THEN p.v ELSE JStr(text)

\* variant: get_session_id reads the body whatever the status is
SessionIdOfAnyStatus(status, text) ==
    LET p == Loads(text)
    IN IF p.ok /\ p.v.t = "obj" THEN DictGet(p.v, S("session_id"), None) ELSE None

\* get_session_id on a response: the session_id of a 200 JSON object, None
\* for any other status and when resp.json() or data.get raises
SessionIdOf(status, text) ==
    IF status = 200
    THEN LET p == Loads(text)
         IN IF p.ok /\ p.v.t = "obj" THEN DictGet(p.v, S("session_id"), None)
            ELSE None
    ELSE None

\* variant: the Failure of step 3 carries the body text whatever its shape
ToolCallResultOfText(status, text) ==
    IF status = 200 THEN success_response(JsonOrText(text))
    ELSE error_response(JStr(text), MCP_SERVER_ERROR)

\* the result of step 3 of call_jsonrpc_http_endpoint on a response
ToolCallResult(status, text) ==
    LET data == JsonOrText(text)
    IN IF status = 200 THEN success_response(data)
       ELSE error_response(
                IF data.t = "obj" THEN DictGet(data, S("error"), S("Unknown error"))
                ELSE PyStr(data),
                MCP_SERVER_ERROR)

\* variant: an except clause that tags its Failure with a str, as
\* HealthCheckHandler does, in place of a member of ErrorType
FailureTaggedWithStr(prefix, cause) ==
    error_response(JStr(<<prefix>> \o cause), "CONNECTION_ERROR")

\* f"Connection error: {str(e)}" and f"Legacy protocol error: {str(e)}"
ConnectionFailure(prefix, cause) ==
    error_response(JStr(<<prefix>> \o cause), CONNECTION_ERROR)

\* _list_tools on the descriptors the server lists
ListToolsResult(tools) ==
    success_response(JObj(<<S("tools")>>,
        <<JList([i \in 1..Len(tools) |->
             JObj(<<S("name"), S("description"), S("input_schema")>>,
                  <<tools[i].name,
                    PyOr(tools[i].description, S("No description")),
                    tools[i].inputSchema>>)])>>))

\* _call_tool on the content items the server returns (each item's text)
CallToolResult(content) ==
    success_response(JObj(<<S("content")>>,
        <<JList([i \in 1..Len(content) |-> JObj(<<S("text")>>, <<content[i]>>)])>>))

\* the parameters health_check sends with its probe
HealthProbeParameters ==
    JObj(<<S("ctx"), S("region"), S("max_items")>>,
         <<JObj(<<S("request_id"), S("source")>>, <<S("health-check"), S("health")>>),
           S("us-east-1"), JInt(1)>>)

\* HealthCheckHandler.handle once health_check has answered
HealthCheckResponse(is_healthy, parameters) ==
    IF is_healthy
    THEN success_response(JObj(<<S("status"), S("timestamp")>>,
                               <<S("healthy"), DictGet(parameters, S("timestamp"), None)>>))
    ELSE error_response(S("MCP server unhealthy"), "HEALTH_CHECK_FAILED")

(***************************************************************************)
(* Timeouts                                                                *)
(***************************************************************************)
\* lambda_handler: asyncio.wait_for(adapter.handle_request(...), timeout=20.0)
LAMBDA_TIMEOUT == 20
\* _connect_and_execute_legacy: asyncio.wait_for(session.initialize(), timeout=5.0)
INITIALIZE_TIMEOUT == 5
\* config.py: MCP_CONNECTION_TIMEOUT defaults to "10"
DEFAULT_CONNECTION_TIMEOUT == 10

(***************************************************************************)
(* Bounds and inputs of the model                                          *)
(***************************************************************************)
\* the longest time the remote server takes to answer when it answers
MaxDelay == 9
Delays == {1, MaxDelay}

\* MCP_CONNECTION_TIMEOUT of the environment (validated positive)
ConnectionTimeouts == {3, DEFAULT_CONNECTION_TIMEOUT}

\* str(e) of a network-level exception; asyncio.TimeoutError has the empty str
Causes == {<<"Cannot connect to host">>, <<"Name or service not known">>}

Statuses == {200, 500}

\* an inbound event: a dict with the routing triple and the given extra keys
Event(api_path, http_method, keys, items) ==
    JObj(<<S("actionGroup"), S("apiPath"), S("httpMethod")>> \o keys,
         <<S("CloudWatchMCP"), api_path, http_method>> \o items)

NameValue(name, value) == JObj(<<S("name"), S("value")>>, <<name, value>>)

\* the parameter shapes of the events: none; a flat list and a request body;
\* a `parameters` that is a number; a `requestBody` that is a str
EventExtras ==
    {[keys |-> << >>, items |-> << >>],
     [keys |-> <<S("parameters"), S("requestBody"), S("sessionId")>>,
      items |-> <<JList(<<NameValue(S("max_items"), JStr(<<"2", "5">>)),
                          NameValue(S("verbose"), JStr(<<"Y", "E", "S">>))>>),
                  JObj(<<S("content")>>,
                       <<JObj(<<S("application/json")>>,
                              <<JObj(<<S("properties")>>,
                                     <<JList(<<NameValue(S("region"),
                                                         S("us-east-1"))>>)>>)>>)>>),
                  S("session-7")>>],
     [keys |-> <<S("parameters")>>, items |-> <<JInt(5)>>],
     [keys |-> <<S("requestBody")>>, items |-> <<S("not a dict")>>]}

\* the apiPath and httpMethod of the events: stored routes in raw form, with
\* the action-group prefix, without or with two leading slashes, routes that
\* may be registered later, unknown paths, the empty str and a value that is
\* no str
Requests ==
    {<<Path("describe-log-groups"), S("POST")>>,
     <<JStr(<<"CloudWatchMCP", "/", "/", "get-active-alarms">>), S("GET")>>,
     <<JStr(<<"list-tools">>), S("GET")>>,
     <<JStr(<<"/", "/", "health">>), S("GET")>>,
     <<Path("unknown-path"), S("POST")>>,
     <<Path("health-check"), S("GET")>>,
     <<Path("custom"), S("POST")>>,
     <<Path("generic-tool"), S("POST")>>,
     <<Path("unmapped-tool"), S("POST")>>,
     <<JStr(<< >>), S("GET")>>,
     <<None, S("POST")>>}

\* a caller that supplies a context of its own as the parameter ctx
ContextSupplied ==
    [keys |-> <<S("parameters")>>,
     items |-> <<JList(<<NameValue(S("ctx"), S("trace-1"))>>)>>]

Events ==
    {Event(r[1], r[2], x.keys, x.items) : r \in Requests, x \in EventExtras}
    \cup {Event(a, S("POST"), ContextSupplied.keys, ContextSupplied.items) :
             a \in {Path("describe-log-groups"), Path("generic-tool")}}

\* int(time.time()) as a str
ClockReadings == {<<"1", "7">>}

\* the number of routes an application registers with add_route
MaxExtraRoutes == 1

\* routes an application may register with add_route
ExtraRoutes ==
    {<<Path("health-check"), HealthCheckHandler>>,
     <<Path("custom"), CustomHandler>>,
     <<Path("generic-tool"), ToolCallHandler(S("run_query"), FALSE)>>,
     <<Path("unmapped-tool"), ToolCallHandler(S("run_query"), TRUE)>>}

\* texts the session endpoint may answer with
SessionTexts ==
    {Dumps(JObj(<<S("session_id")>>, <<S("sid-1")>>)),
     Dumps(JObj(<<S("session_id")>>, <<S("sid-2")>>)),
     Dumps(JObj(<<S("session_id")>>, <<JStr(<< >>)>>)),
     Dumps(EmptyDict),
     Dumps(JList(<< >>)),
     <<"Bad Gateway">>}

\* values the remote server may answer a tools/call with
Payloads ==
    {JObj(<<S("logGroups")>>, <<JList(<< >>)>>),
     JObj(<<S("x")>>, <<JInt(1)>>),
     JObj(<<S("error")>>, <<S("quota exceeded on node 10.0.0.7")>>),
     EmptyDict, JList(<< >>), JList(<<S("a")>>), None, JInt(0)}

\* texts the remote server may answer initialize or tools/call with: JSON
\* texts, a text that is no JSON, and the empty text
ResponseTexts == {Dumps(v) : v \in Payloads} \cup {<<"upstream timed out">>, << >>}

\* texts the remote server may answer initialize with
InitializeTexts == {Dumps(EmptyDict), <<"upstream timed out">>}

\* what the remote server does with one HTTP request
HttpOutcomes(texts) ==
    {[kind |-> "response", status |-> st, text |-> tx, delay |-> d, cause |-> << >>] :
        st \in Statuses, tx \in texts, d \in Delays}
    \cup {[kind |-> "exception", status |-> 0, text |-> << >>, delay |-> d, cause |-> c] :
        d \in Delays, c \in Causes}
    \cup {[kind |-> "silent", status |-> 0, text |-> << >>, delay |-> 0, cause |-> << >>]}

\* aiohttp.ClientTimeout(total=limit): no answer within the limit is an
\* asyncio.TimeoutError at the limit
TimesOut(o, limit) == o.kind = "silent" \/ o.delay >= limit
\* variant: the deadline is noticed only once the answer has arrived
ElapsedUntilAnswer(o, limit) == IF o.kind = "silent" THEN limit ELSE o.delay
\* the time the request takes: its delay, or the limit when it times out
Elapsed(o, limit) == IF TimesOut(o, limit) THEN limit ELSE o.delay
Fails(o, limit) == TimesOut(o, limit) \/ o.kind = "exception"
CauseOf(o, limit) == IF TimesOut(o, limit) THEN << >> ELSE o.cause

\* tool descriptors the server may list
ToolLists ==
    {<< >>,
     <<[name |-> S("run_query"), description |-> None, inputSchema |-> EmptyDict]>>}

\* text items a legacy tool call may return
ContentLists == {<< >>, <<S("42 rows")>>}

\* results a handler registered by the application may return
CustomResults ==
    {success_response(v) : v \in {JObj(<<S("x")>>, <<JInt(1)>>), JList(<< >>), None}}
    \cup {error_response(m, k) :
            m \in {S("db password rejected"), S("stack trace at line 7")},
            k \in ErrorType \cup {NoErrorType}}

(***************************************************************************)
(* State                                                                   *)
(***************************************************************************)
VARIABLES
    pc,             \* where the invocation stands
    instance,       \* SingletonAdapterManager._instance and its config
    processor,      \* TYPE_CONVERTERS and BOOLEAN_FIELDS of the parameter processor
    manager,        \* SingletonAdapterManager._instance and the callers of get_adapter
    returned,       \* what the last call of the registry or of health_check returned
    earlier_sessions, \* the session ids earlier calls of the client obtained
    routes,         \* RouteRegistry._routes of the adapter
    event,          \* the inbound event of the invocation
    info,           \* action_group, api_path, http_method of handle_request
    parameters,     \* the processed parameters
    handler,        \* the handler the registry returned
    call,           \* tool_name and parameters of the connect_and_execute call
    call_start,     \* the time at which connect_and_execute was entered
    session_id,     \* session_id of call_jsonrpc_http_endpoint
    result,         \* the MCPResponse of the client, then of the handler
    envelope,       \* the envelope returned by handle_request or lambda_handler
    exit,           \* the branch of lambda_handler that returned
    raised,         \* the step of handle_request whose exception was caught
    wire,           \* the outbound requests of the invocation, in order
    handler_calls,  \* how often handler.handle was called in the invocation
    now             \* time elapsed since lambda_handler began waiting

\* the state of the manager, of the registry calls and of earlier client
\* calls, which an invocation of lambda_handler leaves as it is
others == <<manager, returned, earlier_sessions>>

vars == <<pc, instance, processor, manager, returned, earlier_sessions, routes, event, info, parameters, handler, call, call_start,
          session_id, result, envelope, exit, raised, wire, handler_calls, now>>

NoInstance == [created |-> FALSE, connection_timeout |-> 0]
\* the threads of the process that call get_adapter
Threads == {1, 2}

\* SingletonAdapterManager before any call: _instance is None (slot 0), no
\* adapter was made, no caller is inside get_adapter. An adapter is named by
\* the number of its construction; constructed and returns count what the
\* calls begun since the last reset_instance have made and returned
NoManager ==
    [slot |-> 0, made |-> 0, constructed |-> 0, resets |-> 0, returns |-> {},
     threads |-> [t \in Threads |-> [pc |-> "out", epoch |-> 0, adapter |-> 0]]]

\* no call has returned yet
NothingReturned == [op |-> "", arg |-> None, value |-> None]
\* the class attributes of BedrockParameterProcessor as the module defines them
DefaultProcessor ==
    [TYPE_CONVERTERS |-> TYPE_CONVERTERS, BOOLEAN_FIELDS |-> BOOLEAN_FIELDS]
NoInfo == [action_group |-> None, api_path |-> None, http_method |-> None]
NoCall == [tool_name |-> None, parameters |-> None]

Init ==
    /\ pc = "idle"
    /\ instance = NoInstance
    /\ processor = DefaultProcessor
    /\ manager = NoManager
    /\ returned = NothingReturned
    /\ earlier_sessions = {}
    /\ routes = DefaultRoutes
    /\ event = None
    /\ info = NoInfo
    /\ parameters = None
    /\ handler = NoHandler
    /\ call = NoCall
    /\ call_start = 0
    /\ session_id = None
    /\ result = NoResponse
    /\ envelope = NoEnvelope
    /\ exit = ""
    /\ raised = ""
    /\ wire = << >>
    /\ handler_calls = 0
    /\ now = 0

\* between two invocations of the function
Idle == pc \in {"idle", "returned"}

\* the locals of an invocation before its first step
FreshInvocation(e) ==
    /\ event' = e
    /\ info' = NoInfo
    /\ parameters' = None
    /\ handler' = NoHandler
    /\ call' = NoCall
    /\ call_start' = 0
    /\ session_id' = None
    /\ result' = NoResponse
    /\ raised' = ""
    /\ wire' = << >>
    /\ handler_calls' = 0
    /\ now' = 0

(***************************************************************************)
(* lambda_handler and SingletonAdapterManager.get_adapter                  *)
(***************************************************************************)
\* get_adapter returns the instance, creating it from the environment when
\* there is none; handle_request starts under the outer deadline
Invoke ==
    /\ Idle
    /\ \E e \in Events : FreshInvocation(e)
    /\ IF instance.created
       THEN UNCHANGED instance
       ELSE \E t \in ConnectionTimeouts :
                instance' = [created |-> TRUE, connection_timeout |-> t]
    /\ pc' = "extract"
    /\ envelope' = NoEnvelope
    /\ exit' = ""
    /\ UNCHANGED <<processor, others, routes>>

\* create_adapter raises ConfigurationError: the instance stays unset
InvokeConfigurationError ==
    /\ Idle
    /\ ~instance.created
    /\ \E e \in Events :
         /\ FreshInvocation(e)
         /\ envelope' = _create_configuration_error_response(e)
    /\ pc' = "returned"
    /\ exit' = "configuration_error"
    /\ UNCHANGED <<instance, processor, others, routes>>

\* the application registers a route on the adapter's registry
AddRoute ==
    /\ Idle
    /\ instance.created
    /\ \E r \in ExtraRoutes : routes' = add_route(routes, r[1], r[2])
    /\ routes' # routes
    /\ Cardinality(DOMAIN routes' \ DOMAIN DefaultRoutes) <= MaxExtraRoutes
    /\ UNCHANGED <<pc, instance, processor, others, event, info, parameters, handler, call, call_start,
                   session_id, result, envelope, exit, raised, wire, handler_calls, now>>

(***************************************************************************)
(* AWSApiMCPAdapter.handle_request                                         *)
(***************************************************************************)
\* variant: an except clause of handle_request that names ValueError only
CatchesValueErrorOnly(exc) == exc = "ValueError"

\* the classes `except Exception` of handle_request catches: every exception
\* the steps of this model raise derives from Exception
HandleRequestCatches(exc) ==
    exc \in {"TypeError", "AttributeError", "ValueError", "OverflowError", "RuntimeError"}

\* variant: the except block answers and the request goes on to the lookup
CaughtAndContinued(step, exc) ==
    /\ raised' = step
    /\ envelope' = CatchAll
    /\ pc' = "dispatch"
    /\ UNCHANGED exit

\* an exception of class exc raised at a step of handle_request: handle_request
\* ends in its except block, or the exception passes through it to the
\* `except Exception` of lambda_handler
Caught(step, exc) ==
    /\ raised' = step
    /\ IF HandleRequestCatches(exc)
       THEN /\ envelope' = CatchAll
            /\ pc' = "handled"
            /\ UNCHANGED exit
       ELSE /\ envelope' = _create_fatal_error_response(event)
            /\ pc' = "returned"
            /\ exit' = "fatal"

ExtractInfo ==
    /\ pc = "extract"
    /\ info' = extract_request_info(event)
    /\ pc' = "params"
    /\ UNCHANGED <<instance, processor, others, routes, event, parameters, handler, call, call_start,
                   session_id, result, envelope, exit, raised, wire, handler_calls, now>>

ProcessParameters ==
    /\ pc = "params"
    /\ \E clock \in ClockReadings :
         \E p \in {process_parameters(processor.TYPE_CONVERTERS,
                                       processor.BOOLEAN_FIELDS, event, clock)} :
            IF p.raised
            THEN Caught("params", p.exc) /\ UNCHANGED parameters
            ELSE /\ parameters' = p.v
                 /\ pc' = "dispatch"
                 /\ UNCHANGED <<envelope, raised, exit>>
    /\ UNCHANGED <<instance, processor, others, routes, event, info, handler, call, call_start,
                   session_id, result, wire, handler_calls, now>>

Dispatch ==
    /\ pc = "dispatch"
    /\ LET h == get_handler(routes, info.api_path)
       IN IF h.raised
          THEN Caught("dispatch", h.exc) /\ UNCHANGED handler
          ELSE IF h.v = NoHandler
          THEN /\ envelope' = _format_not_found_response(
                                  info.action_group, info.api_path, info.http_method)
               /\ pc' = "handled"
               /\ UNCHANGED <<handler, raised, exit>>
          ELSE /\ handler' = h.v
               /\ pc' = "execute"
               /\ UNCHANGED <<envelope, raised, exit>>
    /\ UNCHANGED <<instance, processor, others, routes, event, info, parameters, call, call_start,
                   session_id, result, wire, handler_calls, now>>

\* variant: the handlers call connect_and_execute without the parameters
HandlerCallWithoutParameters(h, params) ==
    [tool_name |->
        CASE h.kind = "ToolCallHandler" /\ h.rest_style -> h.tool_name
          [] h.kind = "ToolCallHandler" /\ ~h.rest_style -> S("call_tool")
          [] h.kind = "ListToolsHandler" -> S("list_tools")
          [] h.kind = "HealthCheckHandler" -> S("describe_log_groups"),
     parameters |-> None]

\* the connect_and_execute call a handler makes
HandlerCall(h, params) ==
    CASE h.kind = "ToolCallHandler" /\ h.rest_style ->
           [tool_name |-> h.tool_name, parameters |-> params]
      [] h.kind = "ToolCallHandler" /\ ~h.rest_style ->
           [tool_name |-> S("call_tool"),
            parameters |-> JObj(<<S("tool_name"), S("arguments")>>,
                                <<h.tool_name, params>>)]
      [] h.kind = "ListToolsHandler" ->
           [tool_name |-> S("list_tools"), parameters |-> None]
      [] h.kind = "HealthCheckHandler" ->
           [tool_name |-> S("describe_log_groups"), parameters |-> HealthProbeParameters]

\* variant: only list_tools and call_tool take the legacy path
LegacyForItsTwoActionsOnly(tool_name) ==
    IF tool_name \in {S("list_tools"), S("call_tool")} THEN "legacy_open" ELSE "session"

\* connect_and_execute: the direct path for a name of endpoint_map, the
\* legacy path for any other name
EntryPoint(tool_name) ==
    IF UsesDirectPath(tool_name) THEN "session" ELSE "legacy_open"

\* how a request ended: with a response, with an exception of the network
\* layer, or with the deadline it ran under
Answer(o, limit) ==
    [kind |-> IF TimesOut(o, limit) THEN "timeout" ELSE o.kind,
     status |-> IF Fails(o, limit) THEN 0 ELSE o.status,
     text |-> IF Fails(o, limit) THEN << >> ELSE o.text,
     cause |-> CauseOf(o, limit)]
Answered == [kind |-> "response", status |-> 200, text |-> << >>, cause |-> << >>]
Refused(c) == [kind |-> "exception", status |-> 0, text |-> << >>, cause |-> c]

\* variant: the requests of steps 2 and 3 go out without the session header
RequestWithoutSessionHeader(req, sid, name, arguments, answer) ==
    [req |-> req, sid |-> None, name |-> name, arguments |-> arguments,
     answer |-> answer]

\* an outbound request and how it ended
Request(req, sid, name, arguments, answer) ==
    [req |-> req, sid |-> sid, name |-> name, arguments |-> arguments,
     answer |-> answer]

\* handler.handle of a handler of this package: it enters connect_and_execute
InvokeHandler ==
    /\ pc = "execute"
    /\ handler.kind # "CustomHandler"
    /\ call' = HandlerCall(handler, parameters)
    /\ call_start' = now
    /\ handler_calls' = handler_calls + 1
    /\ pc' = EntryPoint(call'.tool_name)
    /\ UNCHANGED <<instance, processor, others, routes, event, info, parameters, handler, session_id,
                   result, envelope, exit, raised, wire, now>>

\* handler.handle of a handler the application wrote: it returns a response
InvokeCustomHandler ==
    /\ pc = "execute"
    /\ handler.kind = "CustomHandler"
    /\ handler_calls' = handler_calls + 1
    /\ \E r \in CustomResults : result' = r
    /\ pc' = "format"
    /\ UNCHANGED <<instance, processor, others, routes, event, info, parameters, handler, call, call_start,
                   session_id, envelope, exit, raised, wire, now>>

\* handler.handle of a handler the application wrote: it raises
CustomHandlerRaises ==
    /\ pc = "execute"
    /\ handler.kind = "CustomHandler"
    /\ handler_calls' = handler_calls + 1
    /\ Caught("handler", "RuntimeError")
    /\ UNCHANGED <<instance, processor, others, routes, event, info, parameters, handler, call, call_start,
                   session_id, result, wire, now>>

(***************************************************************************)
(* MCPClient.call_jsonrpc_http_endpoint: the direct path                   *)
(***************************************************************************)
\* variant: a Failure makes connect_and_execute start over
ClientRetries(r) ==
    /\ result' = r
    /\ session_id' = None
    /\ pc' = IF r.success THEN "client_done" ELSE EntryPoint(call.tool_name)

\* variant: the client keeps the session identifier after the call
ClientKeepsSession(r) ==
    /\ result' = r
    /\ pc' = "client_done"
    /\ UNCHANGED session_id

\* connect_and_execute returns r
ClientReturns(r) ==
    /\ result' = r
    /\ session_id' = None
    /\ pc' = "client_done"

\* step 1, get_session_id: POST to the session endpoint
SessionPost ==
    /\ pc = "session"
    /\ \E o \in HttpOutcomes(SessionTexts) :
         LET limit == instance.connection_timeout
             sid == IF Fails(o, limit) THEN None ELSE SessionIdOf(o.status, o.text)
         IN /\ now + Elapsed(o, limit) <= LAMBDA_TIMEOUT
            /\ now' = now + Elapsed(o, limit)
            /\ IF ~Truthy(sid)
               THEN ClientReturns(error_response(
                        S("Could not obtain valid session id from MCP /session endpoint."),
                        CONNECTION_ERROR))
               ELSE /\ session_id' = sid
                    /\ pc' = "initialize"
                    /\ UNCHANGED result
            /\ wire' = Append(wire, Request("session", None, None, None,
                                            Answer(o, limit)))
    /\ UNCHANGED <<instance, processor, others, routes, event, info, parameters, handler, call, call_start,
                   envelope, exit, raised, handler_calls>>

\* step 2: POST initialize with the session id as header
InitializePost ==
    /\ pc = "initialize"
    /\ \E o \in HttpOutcomes(InitializeTexts) :
         LET limit == instance.connection_timeout
         IN /\ now + Elapsed(o, limit) <= LAMBDA_TIMEOUT
            /\ now' = now + Elapsed(o, limit)
            /\ IF Fails(o, limit)
               THEN ClientReturns(ConnectionFailure("Connection error: ", CauseOf(o, limit)))
               ELSE IF o.status # 200
               THEN ClientReturns(error_response(S("Failed MCP initialize"), MCP_SERVER_ERROR))
               ELSE /\ pc' = "toolcall"
                    /\ UNCHANGED <<result, session_id>>
            /\ wire' = Append(wire, Request("initialize", session_id, None, None,
                                            Answer(o, limit)))
    /\ UNCHANGED <<instance, processor, others, routes, event, info, parameters, handler, call, call_start,
                   envelope, exit, raised, handler_calls>>

\* step 3: POST tools/call with the same header
ToolsCallPost ==
    /\ pc = "toolcall"
    /\ \E o \in HttpOutcomes(ResponseTexts) :
         LET limit == instance.connection_timeout
         IN /\ now + Elapsed(o, limit) <= LAMBDA_TIMEOUT
            /\ now' = now + Elapsed(o, limit)
            /\ IF Fails(o, limit)
               THEN ClientReturns(ConnectionFailure("Connection error: ", CauseOf(o, limit)))
               ELSE ClientReturns(ToolCallResult(o.status, o.text))
            /\ wire' = Append(wire, Request("tools/call", session_id, call.tool_name,
                                            PyOr(call.parameters, EmptyDict),
                                            Answer(o, limit)))
    /\ UNCHANGED <<instance, processor, others, routes, event, info, parameters, handler, call, call_start,
                   envelope, exit, raised, handler_calls>>

(***************************************************************************)
(* MCPClient._connect_and_execute_legacy: the legacy path                  *)
(***************************************************************************)
\* streamablehttp_client and ClientSession are entered, or entering raises
LegacyOpen ==
    /\ pc = "legacy_open"
    /\ \/ /\ pc' = "legacy_init"
          /\ wire' = Append(wire, Request("open", None, None, None, Answered))
          /\ UNCHANGED <<result, session_id>>
       \/ \E c \in Causes :
            /\ ClientReturns(ConnectionFailure("Legacy protocol error: ", c))
            /\ wire' = Append(wire, Request("open", None, None, None, Refused(c)))
    /\ UNCHANGED <<instance, processor, others, routes, event, info, parameters, handler, call, call_start,
                   envelope, exit, raised, handler_calls, now>>

\* variant: a name that is neither list_tools nor call_tool lists the tools
UnknownActionListsTools ==
    IF call.tool_name = S("call_tool")
    THEN IF ~Truthy(call.parameters) \/ ~HasKey(call.parameters, S("tool_name"))
         THEN ClientReturns(error_response(S("Tool name is required"), VALIDATION_ERROR))
         ELSE pc' = "legacy_call" /\ UNCHANGED <<result, session_id>>
    ELSE pc' = "legacy_list" /\ UNCHANGED <<result, session_id>>

\* what follows session.initialize() without a further suspension point
AfterInitialize ==
    IF call.tool_name = S("list_tools") THEN pc' = "legacy_list" /\ UNCHANGED <<result, session_id>>
    ELSE IF call.tool_name = S("call_tool")
    THEN IF ~Truthy(call.parameters) \/ ~HasKey(call.parameters, S("tool_name"))
         THEN ClientReturns(error_response(S("Tool name is required"), VALIDATION_ERROR))
         ELSE pc' = "legacy_call" /\ UNCHANGED <<result, session_id>>
    ELSE ClientReturns(error_response(
             JStr(<<"Unknown action: ">> \o PyStr(call.tool_name).s), VALIDATION_ERROR))

\* session.initialize() under its deadline of INITIALIZE_TIMEOUT
LegacyInitialize ==
    /\ pc = "legacy_init"
    /\ \E o \in HttpOutcomes({<< >>}) :
         /\ o.kind = "response" => o.status = 200
         /\ now + Elapsed(o, INITIALIZE_TIMEOUT) <= LAMBDA_TIMEOUT
         /\ now' = now + Elapsed(o, INITIALIZE_TIMEOUT)
         /\ IF TimesOut(o, INITIALIZE_TIMEOUT)
            THEN ClientReturns(error_response(S("Session initialization timeout"),
                                              CONNECTION_ERROR))
            ELSE IF o.kind = "exception"
            THEN ClientReturns(ConnectionFailure("Legacy protocol error: ", o.cause))
            ELSE AfterInitialize
         /\ wire' = Append(wire, Request("legacy_initialize", None, None, None,
                                         Answer(o, INITIALIZE_TIMEOUT)))
    /\ UNCHANGED <<instance, processor, others, routes, event, info, parameters, handler, call, call_start,
                   envelope, exit, raised, handler_calls>>

\* _list_tools: session.list_tools() has no deadline of its own
LegacyListTools ==
    /\ pc = "legacy_list"
    /\ \E d \in Delays :
         /\ now + d <= LAMBDA_TIMEOUT
         /\ now' = now + d
    /\ \/ /\ \E tools \in ToolLists : ClientReturns(ListToolsResult(tools))
          /\ wire' = Append(wire, Request("list_tools", None, None, None, Answered))
       \/ \E c \in Causes :
            /\ ClientReturns(error_response(S("Failed to list tools from MCP server"),
                                            MCP_SERVER_ERROR))
            /\ wire' = Append(wire, Request("list_tools", None, None, None, Refused(c)))
    /\ UNCHANGED <<instance, processor, others, routes, event, info, parameters, handler, call, call_start,
                   envelope, exit, raised, handler_calls>>

\* _call_tool: session.call_tool(tool_name, arguments) has no deadline of its own
LegacyCallTool ==
    /\ pc = "legacy_call"
    /\ \E d \in Delays :
         /\ now + d <= LAMBDA_TIMEOUT
         /\ now' = now + d
    /\ \E answer \in {Answered} \cup {Refused(c) : c \in Causes} :
         /\ IF answer.kind = "response"
            THEN \E content \in ContentLists : ClientReturns(CallToolResult(content))
            ELSE ClientReturns(error_response(S("Tool execution failed on MCP server"),
                                              MCP_SERVER_ERROR))
         /\ wire' = Append(wire, Request("call_tool", None,
                                         DictGet(call.parameters, S("tool_name"), None),
                                         DictGet(call.parameters, S("arguments"), EmptyDict),
                                         answer))
    /\ UNCHANGED <<instance, processor, others, routes, event, info, parameters, handler, call, call_start,
                   envelope, exit, raised, handler_calls>>

(***************************************************************************)
(* back in the handler, in handle_request and in lambda_handler            *)
(***************************************************************************)
\* connect_and_execute has returned to the handler, which returns
HandlerReturns ==
    /\ pc = "client_done"
    /\ result' = IF handler.kind = "HealthCheckHandler"
                 THEN HealthCheckResponse(result.success, parameters)
                 ELSE result
    /\ pc' = "format"
    /\ UNCHANGED <<instance, processor, others, routes, event, info, parameters, handler, call, call_start,
                   session_id, envelope, exit, raised, wire, handler_calls, now>>

\* handle_request formats the handler's result and returns
FormatResponse ==
    /\ pc = "format"
    /\ envelope' = FormatResult(info.action_group, info.api_path, info.http_method, result)
    /\ pc' = "handled"
    /\ UNCHANGED <<instance, processor, others, routes, event, info, parameters, handler, call, call_start,
                   session_id, result, exit, raised, wire, handler_calls, now>>

\* handle_request returned within the outer deadline
LambdaReturns ==
    /\ pc = "handled"
    /\ pc' = "returned"
    /\ exit' = "adapter"
    /\ UNCHANGED <<instance, processor, others, routes, event, info, parameters, handler, call, call_start,
                   session_id, result, envelope, raised, wire, handler_calls, now>>

\* variant: no outer deadline on the awaits the client does not bound itself
WaitLimitWithoutOuterDeadline ==
    CASE pc \in {"session", "initialize", "toolcall"} -> instance.connection_timeout
      [] OTHER -> INITIALIZE_TIMEOUT

\* the longest wait of the suspension point at pc; -1 when nothing bounds it
WaitLimit ==
    CASE pc \in {"session", "initialize", "toolcall"} -> instance.connection_timeout
      [] pc = "legacy_init" -> INITIALIZE_TIMEOUT
      [] OTHER -> -1

\* asyncio.wait_for cancels handle_request at the outer deadline:
\* lambda_handler answers in its except asyncio.TimeoutError branch
LambdaTimeout ==
    /\ pc \in {"session", "initialize", "toolcall", "legacy_init", "legacy_list", "legacy_call"}
    /\ WaitLimit = -1 \/ now + WaitLimit >= LAMBDA_TIMEOUT
    /\ now' = LAMBDA_TIMEOUT
    /\ envelope' = _create_fatal_error_response(event)
    /\ pc' = "returned"
    /\ exit' = "timeout"
    /\ session_id' = None
    /\ UNCHANGED <<instance, processor, others, routes, event, info, parameters, handler, call, call_start,
                   result, raised, wire, handler_calls>>

Next ==
    \/ Invoke
    \/ InvokeConfigurationError
    \/ AddRoute
    \/ ExtractInfo
    \/ ProcessParameters
    \/ Dispatch
    \/ InvokeHandler
    \/ InvokeCustomHandler
    \/ CustomHandlerRaises
    \/ SessionPost
    \/ InitializePost
    \/ ToolsCallPost
    \/ LegacyOpen
    \/ LegacyInitialize
    \/ LegacyListTools
    \/ LegacyCallTool
    \/ HandlerReturns
    \/ FormatResponse
    \/ LambdaReturns
    \/ LambdaTimeout

Spec == Init /\ [][Next]_vars

\* the steps the program takes by itself: everything but the arrival of an
\* invocation, the application's registrations, and the answers of the remote
\* server to requests no deadline bounds (the server may never answer those)
ProgramStep ==
    \/ ExtractInfo
    \/ ProcessParameters
    \/ Dispatch
    \/ InvokeHandler
    \/ InvokeCustomHandler
    \/ CustomHandlerRaises
    \/ SessionPost
    \/ InitializePost
    \/ ToolsCallPost
    \/ LegacyOpen
    \/ LegacyInitialize
    \/ HandlerReturns
    \/ FormatResponse
    \/ LambdaReturns
    \/ LambdaTimeout

\* the event loop runs every step that can run, and timers fire
FairSpec == Spec /\ WF_vars(ProgramStep)

(***************************************************************************)
(* The parameter processor on its own: registrations and process_parameters *)
(***************************************************************************)
\* BedrockParameterProcessor.add_type_converter
add_type_converter(p, field_name, converter) ==
    [p EXCEPT !.TYPE_CONVERTERS =
        [k \in DOMAIN @ \cup {field_name} |-> IF k = field_name THEN converter ELSE @[k]]]

\* BedrockParameterProcessor.add_boolean_field
add_boolean_field(p, field_name) ==
    [p EXCEPT !.BOOLEAN_FIELDS = @ \cup {field_name}]

\* names an application registers with add_type_converter(name, int): a new
\* name and one that is a boolean field already
ExtraIntegerFields == {S("page_size"), S("verbose")}
\* names an application registers with add_boolean_field
ExtraBooleanFields == {S("follow")}

\* the names of the parameters of the events: integer fields, boolean fields,
\* names registered later, and a name of neither kind
ParameterNames ==
    {S("max_items"), S("timeout"), S("page_size"), S("verbose"), S("dry_run"),
     S("follow"), S("region")}

\* the values of the parameters of the events, a str being written atom by
\* atom: integer literals (signed, padded with blanks), other strs, the
\* boolean words in several cases, and values that are no str
ParameterValues ==
    {JStr(<<"2", "5">>), JStr(<<" ", "4", "2", " ">>), JStr(<<"-", "7">>),
     JStr(<<"4", ".", "5">>), JStr(<<"a", "b", "c">>), JStr(<< >>),
     JStr(<<"T", "R", "U", "E">>), JStr(<<"t", "r", "u", "e">>),
     JStr(<<"Y", "e", "s">>), JStr(<<"1">>),
     JStr(<<"F", "a", "l", "s", "e">>), JStr(<<"N", "O">>), JStr(<<"0">>),
     JStr(<<"m", "a", "y", "b", "e">>), JStr(<<" ", "y", "e", "s">>),
     None, JInt(7), JBool(TRUE), JBool(FALSE), JList(<< >>),
     JFloat(4, <<"4.5">>), JFloat(0, <<"inf">>)}

\* events with one parameter in the flat list
CoercionEvents ==
    {Event(Path("describe-log-groups"), S("POST"),
           <<S("parameters")>>, <<JList(<<NameValue(n, v)>>)>>) :
        n \in ParameterNames, v \in ParameterValues}

\* the event keys _create_default_context reads, each absent or present
ContextKeys ==
    {[key |-> S("requestId"), values |-> {S("r-1"), JStr(<< >>)}],
     [key |-> S("messageId"), values |-> {S("m-1")}],
     [key |-> S("sessionId"), values |-> {S("session-7")}],
     [key |-> S("agent"),
      values |-> {JObj(<<S("id")>>, <<S("agent-9")>>), EmptyDict, None}]}

RECURSIVE WithKeys(_, _)
\* the events that extend e by a choice, for each of the keys, of leaving the
\* key out or of one of its values
WithKeys(e, keys) ==
    IF keys = {} THEN {e}
    ELSE LET k == CHOOSE x \in keys : TRUE
             rest == WithKeys(e, keys \ {k})
         IN rest \cup {JObj(Append(r.keys, k.key), Append(r.items, v)) :
                          r \in rest, v \in k.values}

\* events without parameters, with every combination of the context keys
ContextEvents ==
    WithKeys(Event(Path("describe-log-groups"), S("POST"), << >>, << >>), ContextKeys)

\* {name, value} entries of the events with several parameters: an integer
\* field and a field of no kind, values that convert, that do not, and one
\* on which int raises
OrderEntries ==
    {NameValue(n, v) : n \in {S("max_items"), S("region")},
                       v \in {JStr(<<"2", "5">>), S("abc")}}
    \cup {NameValue(S("max_items"), JFloat(0, <<"inf">>))}

\* flat parameter lists of up to two entries
OrderLists ==
    {<< >>} \cup {<<a>> : a \in OrderEntries}
    \cup {<<a, b>> : a \in OrderEntries, b \in OrderEntries}

\* the JSON content of the request bodies: {properties: [...]}, a list, and
\* shapes that are neither
OrderContents ==
    {JObj(<<S("properties")>>, <<JList(l)>>) : l \in {<< >>} \cup {<<a>> : a \in OrderEntries}}
    \cup {JList(<<a>>) : a \in OrderEntries}
    \cup {S("text"), JInt(5), JObj(<<S("other")>>, <<JInt(1)>>),
          JObj(<<S("properties")>>, <<S("text")>>)}

\* events with a flat list and no request body, and with a flat list and a
\* request body
OrderEvents ==
    {Event(Path("describe-log-groups"), S("POST"),
           <<S("parameters")>>, <<JList(l)>>) : l \in OrderLists}
    \cup {Event(Path("describe-log-groups"), S("POST"),
                <<S("parameters"), S("requestBody")>>,
                <<JList(l),
                  JObj(<<S("content")>>, <<JObj(<<S("application/json")>>, <<c>>)>>)>>) :
             l \in OrderLists, c \in OrderContents}

ProcessorInit ==
    /\ pc = "params"
    /\ instance = [created |-> TRUE, connection_timeout |-> DEFAULT_CONNECTION_TIMEOUT]
    /\ processor = DefaultProcessor
    /\ manager = NoManager
    /\ returned = NothingReturned
    /\ earlier_sessions = {}
    /\ routes = DefaultRoutes
    /\ event \in CoercionEvents \cup ContextEvents \cup OrderEvents
    /\ info = extract_request_info(event)
    /\ parameters = None
    /\ handler = NoHandler
    /\ call = NoCall
    /\ call_start = 0
    /\ session_id = None
    /\ result = NoResponse
    /\ envelope = NoEnvelope
    /\ exit = ""
    /\ raised = ""
    /\ wire = << >>
    /\ handler_calls = 0
    /\ now = 0

\* the processor instances of the process: create_adapter makes a new one for
\* every adapter it creates
ProcessorInstances == {1, 2}

\* process_parameters called on instance i: self.TYPE_CONVERTERS and
\* self.BOOLEAN_FIELDS are attributes of the class, which no instance
\* shadows, so every instance reads the same two objects
ProcessOn(i, e, clock) ==
    process_parameters(processor.TYPE_CONVERTERS, processor.BOOLEAN_FIELDS, e, clock)

\* the application registers int as the converter of a field, calling
\* add_type_converter on instance i: the dict of the class is changed in place
AddTypeConverter ==
    /\ pc = "params"
    /\ \E n \in ExtraIntegerFields, i \in ProcessorInstances :
         /\ processor' = add_type_converter(processor, n, "int")
         /\ returned' = [op |-> "add_type_converter", arg |-> n, value |-> JInt(i)]
    /\ processor' # processor
    /\ UNCHANGED <<pc, instance, manager, earlier_sessions, routes, event, info, parameters, handler, call,
                   call_start, session_id, result, envelope, exit, raised, wire,
                   handler_calls, now>>

\* the application registers a boolean field, calling add_boolean_field on
\* instance i: the set of the class is changed in place
AddBooleanField ==
    /\ pc = "params"
    /\ \E n \in ExtraBooleanFields, i \in ProcessorInstances :
         /\ processor' = add_boolean_field(processor, n)
         /\ returned' = [op |-> "add_boolean_field", arg |-> n, value |-> JInt(i)]
    /\ processor' # processor
    /\ UNCHANGED <<pc, instance, manager, earlier_sessions, routes, event, info, parameters, handler, call,
                   call_start, session_id, result, envelope, exit, raised, wire,
                   handler_calls, now>>

ProcessorNext ==
    \/ AddTypeConverter
    \/ AddBooleanField
    \/ ProcessParameters

\* process_parameters on one event, after any registrations
ProcessorSpec == ProcessorInit /\ [][ProcessorNext]_vars

(***************************************************************************)
(* The route registry on its own: add_route, remove_route, get_handler      *)
(***************************************************************************)
\* the locals of an invocation of lambda_handler
invocation ==
    <<event, info, parameters, handler, call, call_start, session_id, result,
      envelope, exit, raised, wire, handler_calls, now>>

\* the action-group prefix of a path: none, with one slash, with two
Prefixes == {<< >>, <<"CloudWatchMCP", "/">>, <<"CloudWatchMCP", "/", "/">>}
\* zero to two leading slashes
LeadingSlashes == {<< >>, <<"/">>, <<"/", "/">>}
\* the paths get_handler is asked for
LookupPaths ==
    {JStr(p \o l \o <<n>>) :
        p \in Prefixes, l \in LeadingSlashes, n \in {"custom", "describe-log-groups"}}

\* the paths an application passes to add_route and remove_route: add_route
\* takes any str as the key
RegistryKeys ==
    {Path("custom"), JStr(<<"custom">>), JStr(<<"CloudWatchMCP", "/", "custom">>),
     JStr(<<"/", "/", "custom">>), Path("describe-log-groups"),
     JStr(<<"/", "/", "describe-log-groups">>)}
RegistryHandlers == {CustomHandler, ListToolsHandler}

\* add_route(k, h)
RegistryAddRoute ==
    /\ \E k \in RegistryKeys, h \in RegistryHandlers :
         /\ routes' = add_route(routes, k, h)
         /\ returned' = [op |-> "add_route", arg |-> k, value |-> None]
    /\ Cardinality(DOMAIN routes' \ DOMAIN DefaultRoutes) <= MaxExtraRoutes
    /\ UNCHANGED <<pc, instance, processor, manager, earlier_sessions, invocation>>

\* remove_route(k) returns whether k was a key
RegistryRemoveRoute ==
    /\ \E k \in RegistryKeys :
         /\ routes' = remove_route(routes, k)
         /\ returned' = [op |-> "remove_route", arg |-> k,
                         value |-> JBool(k \in DOMAIN routes)]
    /\ UNCHANGED <<pc, instance, processor, manager, earlier_sessions, invocation>>

\* get_handler(p) returns a handler or None
RegistryGetHandler ==
    /\ \E p \in LookupPaths :
         returned' = [op |-> "get_handler", arg |-> p, value |-> get_handler(routes, p).v]
    /\ UNCHANGED <<pc, instance, processor, manager, earlier_sessions, routes, invocation>>

RegistryNext ==
    \/ RegistryAddRoute
    \/ RegistryRemoveRoute
    \/ RegistryGetHandler

\* any sequence of calls on one RouteRegistry
RegistrySpec == Init /\ [][RegistryNext]_vars

(***************************************************************************)
(* The health check and repeated calls on one MCPClient                    *)
(***************************************************************************)
\* variant: healthy as soon as the remote server was reached
HealthyWhenReached(r) == JBool(r.success \/ r.error_type # CONNECTION_ERROR)

\* MCPClient.health_check: result.success of the probe
health_check(r) == JBool(r.success)

\* AWSApiMCPAdapter.health_check: the status it builds from mcp_healthy
health_status(mcp_healthy, config) ==
    JObj(<<S("status"), S("mcp_server"), S("config")>>,
         <<IF Truthy(mcp_healthy) THEN S("healthy") ELSE S("unhealthy"),
           IF Truthy(mcp_healthy) THEN S("healthy") ELSE S("unhealthy"),
           JObj(<<S("server_url"), S("timeout")>>,
                <<S("MCP_SERVER_URL"), JInt(config.connection_timeout)>>)>>)

\* operations of the direct path the application calls on the client
ClientOperations == {S("describe_log_groups"), S("get_active_alarms")}

\* the identifier the session POST of the call that just ended returned
ObtainedSessions ==
    IF /\ wire # << >>
       /\ wire[1].req = "session"
       /\ wire[1].answer.kind = "response"
       /\ Truthy(SessionIdOf(wire[1].answer.status, wire[1].answer.text))
    THEN {SessionIdOf(wire[1].answer.status, wire[1].answer.text)}
    ELSE {}

\* an adapter created from a valid environment; nothing was called yet
ClientInit ==
    /\ pc = "idle"
    /\ instance \in {[created |-> TRUE, connection_timeout |-> t] : t \in ConnectionTimeouts}
    /\ processor = DefaultProcessor
    /\ manager = NoManager
    /\ returned = NothingReturned
    /\ earlier_sessions = {}
    /\ routes = DefaultRoutes
    /\ event = None
    /\ info = NoInfo
    /\ parameters = None
    /\ handler = NoHandler
    /\ call = NoCall
    /\ call_start = 0
    /\ session_id = None
    /\ result = NoResponse
    /\ envelope = NoEnvelope
    /\ exit = ""
    /\ raised = ""
    /\ wire = << >>
    /\ handler_calls = 0
    /\ now = 0

\* connect_and_execute(name, params) is entered: its locals are fresh, the
\* client object holds nothing but its config
EnterClient(name, params) ==
    /\ call' = [tool_name |-> name, parameters |-> params]
    /\ call_start' = 0
    /\ now' = 0
    /\ wire' = << >>
    /\ result' = NoResponse
    /\ session_id' = None
    /\ earlier_sessions' = earlier_sessions \cup ObtainedSessions
    /\ pc' = EntryPoint(name)
    /\ UNCHANGED <<instance, processor, manager, routes, event, info, parameters, handler,
                   envelope, exit, raised, handler_calls>>

\* the application calls connect_and_execute for an operation of the direct path
ClientCall ==
    /\ pc = "idle"
    /\ \E name \in ClientOperations, params \in {None, EmptyDict} :
         /\ EnterClient(name, params)
         /\ returned' = [op |-> "connect_and_execute", arg |-> name, value |-> None]

\* that call returns to the application
ClientCallReturns ==
    /\ pc = "client_done"
    /\ returned.op = "connect_and_execute"
    /\ returned' = [returned EXCEPT !.value = JBool(result.success)]
    /\ pc' = "idle"
    /\ UNCHANGED <<instance, processor, manager, earlier_sessions, routes, invocation>>

\* AWSApiMCPAdapter.health_check awaits MCPClient.health_check, which awaits
\* the probe connect_and_execute("describe_log_groups", ...)
HealthCheck ==
    /\ pc = "idle"
    /\ EnterClient(S("describe_log_groups"), HealthProbeParameters)
    /\ returned' = [op |-> "health_check", arg |-> None, value |-> None]

\* the probe has returned: MCPClient.health_check returns its boolean and
\* AWSApiMCPAdapter.health_check the status it builds from it
HealthCheckReturns ==
    /\ pc = "client_done"
    /\ returned.op = "health_check"
    /\ returned' = [op |-> "health_check", arg |-> health_check(result),
                    value |-> health_status(health_check(result), instance)]
    /\ pc' = "idle"
    /\ UNCHANGED <<instance, processor, manager, earlier_sessions, routes, invocation>>

ClientNext ==
    \/ ClientCall
    \/ ClientCallReturns
    \/ HealthCheck
    \/ HealthCheckReturns
    \/ SessionPost
    \/ InitializePost
    \/ ToolsCallPost

ClientSpec == ClientInit /\ [][ClientNext]_vars

(***************************************************************************)
(* SingletonAdapterManager under callers in several threads                *)
(***************************************************************************)
\* adapters the process makes at most
MaxAdapters == 3
\* calls of reset_instance at most
MaxResets == 1

\* the state of caller t inside get_adapter
Caller(t) == manager.threads[t]

\* what a step of the manager leaves alone
AdapterUnchanged ==
    UNCHANGED <<pc, instance, processor, returned, earlier_sessions, routes, invocation>>

\* get_adapter, `if cls._instance is None`: caller t reads the slot
GetAdapterCheck(t) ==
    /\ Caller(t).pc = "out"
    /\ manager' = [manager EXCEPT
                     !.threads[t].pc = IF manager.slot = 0 THEN "create" ELSE "return",
                     !.threads[t].epoch = manager.resets]
    /\ AdapterUnchanged

\* get_adapter, `cls._instance = AWSApiMCPAdapterFactory.create_adapter()`:
\* caller t, which saw None, makes an adapter and writes it to the slot
GetAdapterCreate(t) ==
    /\ Caller(t).pc = "create"
    /\ manager.made < MaxAdapters
    /\ manager' = [manager EXCEPT
                     !.made = @ + 1,
                     !.slot = manager.made + 1,
                     !.constructed = IF Caller(t).epoch = manager.resets THEN @ + 1 ELSE @,
                     !.threads[t].pc = "return"]
    /\ AdapterUnchanged

\* create_adapter raises ConfigurationError, which leaves get_adapter: the
\* slot is not written
GetAdapterConfigurationError(t) ==
    /\ Caller(t).pc = "create"
    /\ manager' = [manager EXCEPT !.threads[t].pc = "out", !.threads[t].adapter = 0]
    /\ AdapterUnchanged

\* get_adapter, `return cls._instance`: caller t reads the slot again and
\* returns what it holds now
GetAdapterReturn(t) ==
    /\ Caller(t).pc = "return"
    /\ manager' = [manager EXCEPT
                     !.threads[t].pc = "out",
                     !.threads[t].adapter = manager.slot,
                     !.returns = IF Caller(t).epoch = manager.resets
                                 THEN @ \cup {manager.slot} ELSE @]
    /\ AdapterUnchanged

\* reset_instance: `cls._instance = None`
ResetInstance ==
    /\ manager.resets < MaxResets
    /\ manager' = [manager EXCEPT
                     !.slot = 0, !.resets = @ + 1, !.constructed = 0, !.returns = {}]
    /\ AdapterUnchanged

SingletonNext ==
    \/ \E t \in Threads : GetAdapterCheck(t)
    \/ \E t \in Threads : GetAdapterCreate(t)
    \/ \E t \in Threads : GetAdapterConfigurationError(t)
    \/ \E t \in Threads : GetAdapterReturn(t)
    \/ ResetInstance

SingletonSpec == Init /\ [][SingletonNext]_vars

(***************************************************************************)
(* Properties                                                              *)
(***************************************************************************)
StatusOf(env) == env.response.httpStatusCode
\* json.loads of the body string of an envelope
BodyValue(env) == Loads(BodyOf(env).s)
ErrorBody(message) == JObj(<<S("error")>>, <<message>>)

WellFormed(env) ==
    /\ env.messageVersion = S("1.0")
    /\ StatusOf(env) \in 100..599
    /\ BodyOf(env).t = "str"
    /\ BodyValue(env).ok

\* handle_request has returned the envelope of a result its handler returned
HandlerReturned == pc = "handled" /\ raised = "" /\ handler_calls = 1
HandlerFailed == HandlerReturned /\ ~result.success
HandlerSucceeded == HandlerReturned /\ result.success

\* process_parameters returns for the event, whatever the clock reads
ParametersOk(e) ==
    \A c \in ClockReadings :
        ~process_parameters(TYPE_CONVERTERS, BOOLEAN_FIELDS, e, c).raised

RawPath(e) == DictGet(e, S("apiPath"), JStr(<< >>))

\* the apiPath of the event is no stored key, neither raw nor normalized
NoRouteFor(e) ==
    /\ RawPath(e) \notin DOMAIN routes
    /\ RawPath(e).t = "str" => JStr(NormalizePath(RawPath(e).s)) \notin DOMAIN routes

\* sub occurs in s as a run of consecutive atoms
Contains(s, sub) ==
    \E i \in 1..(Len(s) - Len(sub) + 1) : SubSeq(s, i, i + Len(sub) - 1) = sub

\* C1: handle_request returns an envelope for every outcome of its steps and
\* no exception passes through it to lambda_handler; when a step raised, the
\* envelope has status 500 and the message "Internal server error".
C1_NoExceptionEscapes ==
    /\ exit # "fatal"
    /\ pc = "handled" => WellFormed(envelope)
    /\ pc = "handled" /\ raised # "" =>
         /\ StatusOf(envelope) = 500
         /\ BodyValue(envelope).v = ErrorBody(S("Internal server error"))

C1_Witness ==
    /\ pc = "handled"
    /\ raised = "dispatch"
    /\ StatusOf(envelope) = 500

\* C2: when the handler returned a Failure, the status code of the envelope is
\* 400 for ValidationError, 502 for ConnectionError, 503 for
\* RemoteServerError, 500 for ProcessingError and for any other or missing
\* kind, and never 200.
C2_StatusOfFailure ==
    HandlerFailed =>
        LET k == result.error_type
            st == StatusOf(envelope)
        IN /\ k = VALIDATION_ERROR => st = 400
           /\ k = CONNECTION_ERROR => st = 502
           /\ k = MCP_SERVER_ERROR => st = 503
           /\ k = PROCESSING_ERROR => st = 500
           /\ k \notin ErrorType => st = 500
           /\ st # 200

C2_Witness ==
    /\ HandlerFailed
    /\ result.error_type = VALIDATION_ERROR
    /\ handler.kind = "ToolCallHandler"
    /\ StatusOf(envelope) = 400

\* internal messages a second run may carry in place of the one of this run
AlternativeMessages ==
    {S("db password rejected"),
     JStr(<<"Connection error: ", "Name or service not known">>),
     S("quota exceeded on node 10.0.0.7"),
     JStr(<< >>)}

\* the fixed user-facing message of each kind
FixedMessage(k) ==
    CASE k = VALIDATION_ERROR -> S("Invalid request parameters")
      [] k = CONNECTION_ERROR -> S("Service temporarily unavailable")
      [] k = MCP_SERVER_ERROR -> S("External service error")
      [] k = PROCESSING_ERROR -> S("Request processing failed")
      [] OTHER -> S("Internal server error")

\* C3: the envelope of a handler Failure is the same whatever the internal
\* message: a run on the same event with the same kind and any other message
\* returns the identical envelope; the body carries the fixed message of the
\* kind and does not contain the internal message.
C3_Redaction ==
    HandlerFailed =>
        LET i == extract_request_info(event)
        IN /\ \A m \in AlternativeMessages :
                envelope = FormatResult(i.action_group, i.api_path, i.http_method,
                                        error_response(m, result.error_type))
           /\ BodyValue(envelope).v = ErrorBody(FixedMessage(result.error_type))
           /\ result.error.t = "str" /\ result.error.s # << >> =>
                ~Contains(BodyOf(envelope).s, result.error.s)

C3_Witness ==
    /\ HandlerFailed
    /\ result.error_type = CONNECTION_ERROR
    /\ result.error = JStr(<<"Connection error: ", "Cannot connect to host">>)
    /\ BodyValue(envelope).v = ErrorBody(S("Service temporarily unavailable"))

\* C4: when the handler returned Success(payload), the envelope has status 200
\* and its body parses to exactly that payload.
C4_SuccessRoundTrip ==
    HandlerSucceeded =>
        /\ StatusOf(envelope) = 200
        /\ BodyValue(envelope).ok
        /\ BodyValue(envelope).v = result.data

\* C5, for every event: an event whose apiPath matches no stored route gets
\* the 404 envelope naming the raw path, with no handler call and no outbound
\* request.
C5_UnknownPathAlways404 ==
    pc = "handled" /\ NoRouteFor(event) =>
        /\ StatusOf(envelope) = 404
        /\ BodyValue(envelope).v =
             ErrorBody(JStr(<<"Unknown API path: ">> \o RawPath(event).s))
        /\ handler_calls = 0
        /\ wire = << >>

\* C5, for the events that reach the route lookup: an event whose parameters are processed without an exception
\* and whose apiPath is a str matching no stored route gets the 404 envelope
\* naming the raw path, with no handler call and no outbound request.
C5_UnknownPath404 ==
    pc = "handled" /\ ParametersOk(event) /\ RawPath(event).t = "str"
        /\ NoRouteFor(event) =>
        /\ StatusOf(envelope) = 404
        /\ BodyValue(envelope).v =
             ErrorBody(JStr(<<"Unknown API path: ">> \o RawPath(event).s))
        /\ raised = ""
        /\ handler_calls = 0
        /\ wire = << >>

C5_Witness ==
    /\ pc = "handled"
    /\ RawPath(event) = JStr(<< >>)
    /\ StatusOf(envelope) = 404
    /\ BodyValue(envelope).v = ErrorBody(S("Unknown API path: "))

\* C6: every envelope handle_request returns has messageVersion "1.0" and
\* echoes the actionGroup, apiPath and httpMethod of the event.
C6_EchoesRequest ==
    pc = "handled" =>
        /\ envelope.messageVersion = S("1.0")
        /\ envelope.response.actionGroup = DictGet(event, S("actionGroup"), JStr(<< >>))
        /\ envelope.response.apiPath = RawPath(event)
        /\ envelope.response.httpMethod = DictGet(event, S("httpMethod"), JStr(<< >>))

\* C7: when parameter processing raises, the envelope has status 500 and the
\* generic message of a ProcessingError Failure, and no handler is invoked.
C7_ParameterErrorIsProcessingError ==
    pc = "handled" /\ ~ParametersOk(event) =>
        /\ StatusOf(envelope) = 500
        /\ BodyValue(envelope).v = ErrorBody(FixedMessage(PROCESSING_ERROR))
        /\ handler_calls = 0

\* C8: whatever the remote server does, on the direct and on the legacy path,
\* connect_and_execute returns a Success, or a Failure whose kind is one of
\* the four of ErrorType.
C8_ClientResultClassified ==
    pc = "client_done" =>
        \/ result.success /\ result.error_type = NoErrorType
        \/ ~result.success /\ result.error_type \in ErrorType

C8_Witness ==
    /\ pc = "client_done"
    /\ result = error_response(S("Session initialization timeout"), CONNECTION_ERROR)
    /\ now = INITIALIZE_TIMEOUT

\* C9: a connect_and_execute call is over within connection_timeout + 5 of its
\* start.
C9_WholeCallDeadline ==
    pc \in {"session", "initialize", "toolcall", "legacy_open", "legacy_init",
            "legacy_list", "legacy_call", "client_done"} =>
        now - call_start <= instance.connection_timeout + 5

\* C10: whatever the remote server does, also when it never answers, every
\* invocation of lambda_handler returns, and what it returns is a well-formed
\* envelope: the status-500 envelope when the outer deadline of
\* LAMBDA_TIMEOUT expired, the status-502 envelope when a deadline inside
\* the client (of the handshake, of a request) expired first.
C10_InvocationReturns ==
    /\ [](pc = "returned" => WellFormed(envelope))
    /\ [](exit = "timeout" =>
            /\ StatusOf(envelope) = 500
            /\ BodyValue(envelope).v = ErrorBody(S("Internal server error")))
    /\ [](pc = "returned" /\ exit = "adapter" /\ raised = "" /\ handler_calls = 1
            /\ ~result.success /\ result.error_type = CONNECTION_ERROR =>
            StatusOf(envelope) = 502)
    /\ (pc = "extract") ~> (pc = "returned")

C10_Witness ==
    /\ pc = "returned"
    /\ exit = "timeout"
    /\ now = LAMBDA_TIMEOUT
    /\ call.tool_name = S("list_tools")
    /\ Len(wire) = 2
    /\ wire[2].req = "legacy_initialize"

(***************************************************************************)
(* Claims about the protocol client                                        *)
(***************************************************************************)
\* the operation names of the static table, as the specification lists them
StaticTable ==
    {S("describe_log_groups"), S("analyze_log_group"), S("get_metric_data"),
     S("get_metric_metadata"), S("get_recommended_metric_alarms"),
     S("get_active_alarms"), S("get_alarm_history")}

DirectRequests == {"session", "initialize", "tools/call"}
LegacyRequests == {"open", "legacy_initialize", "list_tools", "call_tool"}
DirectSteps == {"session", "initialize", "toolcall"}
LegacySteps == {"legacy_open", "legacy_init", "legacy_list", "legacy_call"}

\* the requests connect_and_execute has made in this invocation
RequestsMade == {wire[i].req : i \in DOMAIN wire}

\* connect_and_execute was entered in this invocation
ClientEntered == call # NoCall

\* connect_and_execute has returned and the handler has not yet
ClientReturned == pc = "client_done"

\* the request whose end made connect_and_execute return
LastRequest == wire[Len(wire)]

\* C11: the path connect_and_execute takes depends on the operation name
\* only: for a name of the static table it makes only the requests of the
\* direct path (session POST, initialize, tools/call) and never opens the
\* legacy transport; for any other name (list_tools, call_tool, an
\* unrecognized name) it makes only the requests of the legacy path and never
\* POSTs to the session endpoint; whatever the parameters are.
C11_PathByOperationName ==
    ClientEntered =>
        IF call.tool_name \in StaticTable
        THEN RequestsMade \subseteq DirectRequests /\ pc \notin LegacySteps
        ELSE RequestsMade \subseteq LegacyRequests /\ pc \notin DirectSteps

\* an unrecognized name went through the legacy transport and its handshake
C11_Witness ==
    /\ ClientReturned
    /\ call.tool_name = S("run_query")
    /\ Len(wire) = 2
    /\ wire[1].req = "open"
    /\ wire[2].req = "legacy_initialize"

\* the response carries a session identifier
HasSessionIdentifier(text) ==
    /\ Loads(text).ok
    /\ Loads(text).v.t = "obj"
    /\ DictGet(Loads(text).v, S("session_id"), None) \notin {None, JStr(<< >>)}

\* the session endpoint answered with a status other than 200 or with a 200
\* response without a session identifier
SessionRefused ==
    \E i \in DOMAIN wire :
        /\ wire[i].req = "session"
        /\ wire[i].answer.kind = "response"
        /\ wire[i].answer.status # 200 \/ ~HasSessionIdentifier(wire[i].answer.text)

\* the body the session endpoint answered with does not occur in the envelope
RemoteBodyWithheld ==
    \A i \in DOMAIN wire :
        wire[i].answer.text # << >> =>
            ~Contains(BodyOf(envelope).s, wire[i].answer.text)

BodyOfAnswer(answer) ==
    IF Loads(answer.text).ok THEN Loads(answer.text).v ELSE JStr(answer.text)

\* the remote server answered request i with a response
Responded(i, req) == wire[i].req = req /\ wire[i].answer.kind = "response"

\* C13: once a session identifier was obtained, a non-200 answer to
\* initialize ends the call with Failure(RemoteServerError); a non-200 answer
\* to tools/call ends it with Failure(RemoteServerError) whose message is the
\* error field of the body when the body is an object ("Unknown error" when
\* the object has no such field) and str() of the body otherwise; a 200
\* answer to tools/call ends it with Success of the body.
C13_RemoteAnswers ==
    \A i \in DOMAIN wire :
        /\ Responded(i, "initialize") /\ wire[i].answer.status # 200 =>
             /\ i = Len(wire) /\ pc \notin DirectSteps
             /\ ClientReturned =>
                  ~result.success /\ result.error_type = MCP_SERVER_ERROR
        /\ Responded(i, "tools/call") =>
             /\ i = Len(wire) /\ pc \notin DirectSteps
             /\ ClientReturned =>
                  LET body == BodyOfAnswer(wire[i].answer)
                  IN IF wire[i].answer.status = 200
                     THEN result.success /\ result.data = body
                     ELSE /\ ~result.success
                          /\ result.error_type = MCP_SERVER_ERROR
                          /\ body.t = "obj" /\ HasKey(body, S("error")) =>
                               result.error = DictGet(body, S("error"), None)
                          /\ body.t = "obj" /\ ~HasKey(body, S("error")) =>
                               result.error = S("Unknown error")
                          /\ body.t = "str" => result.error = body
                          /\ body.t \notin {"obj", "str"} =>
                               result.error = PyStr(body)

\* tools/call was answered 500 with an object that has an error field
C13_Witness ==
    /\ ClientReturned
    /\ Len(wire) = 3
    /\ Truthy(wire[3].sid)
    /\ Responded(3, "tools/call")
    /\ wire[3].answer.status = 500
    /\ ~result.success
    /\ result.error = S("quota exceeded on node 10.0.0.7")

\* a round trip of the direct path ended with an exception of the network
\* layer: a refused or unresolved connection, or the request's deadline
NetworkFailure(i) ==
    /\ wire[i].req \in DirectRequests
    /\ wire[i].answer.kind \in {"exception", "timeout"}

\* C14: when one of the three round trips of the direct path ends with an
\* exception of the network layer, connect_and_execute returns
\* Failure(ConnectionError) and the message of the Failure carries the
\* description of the underlying cause (str of the exception).
C14_NetworkFailureCarriesCause ==
    \A i \in DOMAIN wire :
        NetworkFailure(i) =>
            /\ i = Len(wire) /\ pc \notin DirectSteps
            /\ ClientReturned =>
                 /\ ~result.success
                 /\ result.error_type = CONNECTION_ERROR
                 /\ wire[i].answer.kind = "exception" =>
                      Contains(result.error.s, wire[i].answer.cause)

\* the handshake of the legacy session did not complete within its deadline
HandshakeTimedOut(i) ==
    wire[i].req = "legacy_initialize" /\ wire[i].answer.kind = "timeout"

\* C15: on the legacy path, when the initialization handshake has not
\* completed within its fixed deadline of 5 time units, which is shorter than
\* the outer deadline, connect_and_execute returns Failure(ConnectionError)
\* at that point, and no list-tools or tool-call request is made on the
\* session.
C15_HandshakeDeadline ==
    \A i \in DOMAIN wire :
        HandshakeTimedOut(i) =>
            /\ i = Len(wire)
            /\ pc \notin LegacySteps
            /\ RequestsMade \cap {"list_tools", "call_tool"} = {}
            /\ 5 < LAMBDA_TIMEOUT
            /\ ClientReturned =>
                 /\ ~result.success
                 /\ result.error_type = CONNECTION_ERROR
                 /\ now - call_start = 5

\* the server answers the handshake of a list_tools call too late
C15_Witness ==
    /\ ClientReturned
    /\ call.tool_name = S("list_tools")
    /\ Len(wire) = 2
    /\ HandshakeTimedOut(2)
    /\ result.error = S("Session initialization timeout")
    /\ now = 5

\* the operation name is neither in the static table nor list_tools nor
\* call_tool
UnknownAction ==
    /\ ClientEntered
    /\ call.tool_name \notin StaticTable \cup {S("list_tools"), S("call_tool")}

\* the Failure of an unknown action
IsUnknownActionFailure(r) ==
    /\ ~r.success
    /\ r.error_type = VALIDATION_ERROR
    /\ r.error.t = "str"
    /\ Contains(r.error.s, <<"Unknown action: ">>)

\* the legacy transport was opened and the handshake completed
HandshakeCompleted ==
    /\ Len(wire) >= 2
    /\ wire[1].req = "open" /\ wire[1].answer.kind = "response"
    /\ wire[2].req = "legacy_initialize" /\ wire[2].answer.kind = "response"

\* C16 as stated: for every operation name that is neither in the static
\* table nor list_tools nor call_tool, connect_and_execute returns
\* Failure(ValidationError) ("Unknown action"), whatever the remote server
\* does.
C16_UnknownActionAlwaysRejected ==
    UnknownAction /\ ClientReturned => IsUnknownActionFailure(result)

\* C16 amended: for such a name connect_and_execute opens the legacy
\* transport and runs the handshake first; it returns
\* Failure(ValidationError) ("Unknown action: <name>") once the handshake has
\* completed and Failure(ConnectionError) when opening the transport or the
\* handshake fails or times out; in both cases no list-tools or tool-call
\* request is made.
C16_UnknownActionRejectedAfterHandshake ==
    UnknownAction =>
        /\ RequestsMade \cap {"list_tools", "call_tool"} = {}
        /\ ClientReturned =>
             IF HandshakeCompleted
             THEN /\ IsUnknownActionFailure(result)
                  /\ result.error = JStr(<<"Unknown action: ">> \o call.tool_name.s)
             ELSE ~result.success /\ result.error_type = CONNECTION_ERROR

\* the remote server completed the handshake for the unmapped name
C16_Witness ==
    /\ ClientReturned
    /\ call.tool_name = S("run_query")
    /\ HandshakeCompleted
    /\ IsUnknownActionFailure(result)

(***************************************************************************)
(* Claims about the request context and the parameter processor            *)
(***************************************************************************)
ContextFields == {S("request_id"), S("source"), S("session_id"), S("agent_id")}

\* the keys of a dict
KeysOf(d) == {d.keys[i] : i \in DOMAIN d.keys}

\* p holds under ctx a record with the four fields of a RequestContext
HasRequestContext(p) ==
    /\ p.t = "obj"
    /\ HasKey(p, S("ctx"))
    /\ DictGet(p, S("ctx"), None).t = "obj"
    /\ KeysOf(DictGet(p, S("ctx"), None)) = ContextFields

\* the event supplies the parameter ctx in its flat parameter list
SuppliesContext(e) ==
    LET ps == DictGet(e, S("parameters"), JList(<< >>))
    IN /\ ps.t = "list"
       /\ \E i \in DOMAIN ps.items :
            /\ ps.items[i].t = "obj"
            /\ DictGet(ps.items[i], S("name"), None) = S("ctx")

\* C17 as stated: every call a handler makes to connect_and_execute carries
\* parameters that contain a RequestContext with the fields request_id,
\* source, session_id and agent_id.
C17_EveryCallCarriesContext ==
    ClientEntered => HasRequestContext(call.parameters)

\* C17 amended: a ToolCallHandler passes the processed parameters, which hold
\* under ctx the caller's own context when the event supplied one and else a
\* RequestContext with the four fields; the REST-style handler passes them as
\* the parameters of the call, the generic one as its arguments sub-map.
\* ListToolsHandler calls without parameters, and the probe of
\* HealthCheckHandler carries a fixed context with request_id and source only.
C17_ToolCallsCarryContext ==
    ClientEntered =>
        CASE handler.kind = "ToolCallHandler" /\ handler.rest_style ->
               /\ call.parameters = parameters
               /\ IF SuppliesContext(event)
                  THEN DictGet(call.parameters, S("ctx"), None) = S("trace-1")
                  ELSE HasRequestContext(call.parameters)
          [] handler.kind = "ToolCallHandler" /\ ~handler.rest_style ->
               /\ KeysOf(call.parameters) = {S("tool_name"), S("arguments")}
               /\ DictGet(call.parameters, S("arguments"), None) = parameters
               /\ IF SuppliesContext(event)
                  THEN DictGet(parameters, S("ctx"), None) = S("trace-1")
                  ELSE HasRequestContext(parameters)
          [] handler.kind = "ListToolsHandler" -> call.parameters = None
          [] handler.kind = "HealthCheckHandler" ->
               /\ call.parameters.t = "obj"
               /\ KeysOf(DictGet(call.parameters, S("ctx"), None)) =
                    {S("request_id"), S("source")}

\* a tool route was called with an event that supplies no context
C17_Witness ==
    /\ pc = "session"
    /\ handler.kind = "ToolCallHandler"
    /\ ~SuppliesContext(event)
    /\ HasKey(event, S("sessionId"))
    /\ HasRequestContext(call.parameters)
    /\ DictGet(DictGet(call.parameters, S("ctx"), None), S("session_id"), None) =
         S("session-7")

\* process_parameters has run on the event
Processed == pc # "params" /\ pc # "extract" /\ pc # "idle" /\ event # None

\* process_parameters returned the parameters
ParametersReturned == Processed /\ raised # "params"

\* the context process_parameters stored
StoredContext == DictGet(parameters, S("ctx"), None)

\* C18: for every event that carries no explicit context parameter,
\* process_parameters yields a context whose request_id is non-empty (the
\* event's requestId, else its messageId, else derived from the clock), whose
\* source is "bedrock-agent", whose session_id is the event's sessionId or
\* "default-session" and whose agent_id is the id of the event's agent or
\* "unknown-agent".
C18_DefaultContext ==
    Processed /\ ~SuppliesContext(event) =>
        /\ ~ParametersReturned => HasKey(event, S("parameters"))
                                    \/ HasKey(event, S("requestBody"))
        /\ ParametersReturned =>
             LET ctx == StoredContext
                 request_id == DictGet(ctx, S("request_id"), None)
             IN /\ HasRequestContext(parameters)
                /\ request_id.t = "str" /\ request_id.s # << >>
                /\ request_id =
                     IF HasKey(event, S("requestId"))
                     THEN DictGet(event, S("requestId"), None)
                     ELSE IF HasKey(event, S("messageId"))
                     THEN DictGet(event, S("messageId"), None)
                     ELSE request_id
                /\ ~HasKey(event, S("requestId")) /\ ~HasKey(event, S("messageId")) =>
                     request_id \in {JStr(<<"req-">> \o c) : c \in ClockReadings}
                /\ DictGet(ctx, S("source"), None) = S("bedrock-agent")
                /\ DictGet(ctx, S("session_id"), None) =
                     DictGet(event, S("sessionId"), S("default-session"))
                /\ DictGet(ctx, S("agent_id"), None) =
                     DictGet(DictGet(event, S("agent"), EmptyDict), S("id"),
                             S("unknown-agent"))

\* the event has exactly one parameter, in its flat list, and no request body
HasOneParameter(e) ==
    /\ HasKey(e, S("parameters"))
    /\ ~HasKey(e, S("requestBody"))
    /\ DictGet(e, S("parameters"), None).t = "list"
    /\ Len(DictGet(e, S("parameters"), None).items) = 1
    /\ KeysOf(DictGet(e, S("parameters"), None).items[1]) = {S("name"), S("value")}

\* its name and its value
InboundName == DictGet(DictGet(event, S("parameters"), None).items[1], S("name"), None)
InboundValue == DictGet(DictGet(event, S("parameters"), None).items[1], S("value"), None)

\* what process_parameters stored under the name
StoredValue == DictGet(parameters, InboundName, None)

\* the numeric strs among the inbound values and the integers they denote
NumericStrings ==
    {<<JStr(<<"2", "5">>), 25>>, <<JStr(<<" ", "4", "2", " ">>), 42>>,
     <<JStr(<<"-", "7">>), -7>>, <<JStr(<<"1">>), 1>>, <<JStr(<<"0">>), 0>>}

IsNumericString(v) == \E p \in NumericStrings : p[1] = v

\* C19: for every field name registered as integer-coerced and every inbound
\* value, a numeric str is stored as the integer it denotes, a str that is
\* not numeric is stored unchanged, and no exception leaves
\* process_parameters because the coercion failed.
C19_IntegerCoercion ==
    /\ Processed
    /\ HasOneParameter(event)
    /\ InboundName \in DOMAIN processor.TYPE_CONVERTERS
    => /\ ParametersReturned
       /\ \A p \in NumericStrings : InboundValue = p[1] => StoredValue = JInt(p[2])
       /\ InboundValue.t = "str" /\ ~IsNumericString(InboundValue) =>
            StoredValue = InboundValue

\* the strs that are equal, ignoring case, to "true", "1" or "yes"
TrueStrings ==
    {JStr(<<"T", "R", "U", "E">>), JStr(<<"t", "r", "u", "e">>),
     JStr(<<"Y", "e", "s">>), JStr(<<"1">>)}
\* the strs that are equal, ignoring case, to "false", "0" or "no"
FalseStrings == {JStr(<<"F", "a", "l", "s", "e">>), JStr(<<"N", "O">>), JStr(<<"0">>)}

\* the value a boolean field is stored with
BooleanOf(v) ==
    IF v \in TrueStrings THEN JBool(TRUE)
    ELSE IF v \in FalseStrings THEN JBool(FALSE)
    ELSE v

\* C20 as stated: for every field registered as boolean and every inbound
\* value, a str equal ignoring case to "true", "1" or "yes" is stored as
\* true, one equal to "false", "0" or "no" as false, and any other str and
\* any value that is no str is stored unchanged.
C20_BooleanCoercion ==
    /\ ParametersReturned
    /\ HasOneParameter(event)
    /\ InboundName \in processor.BOOLEAN_FIELDS
    => StoredValue = BooleanOf(InboundValue)

\* C20 amended: the same for every field registered as boolean for which no
\* type converter is registered; the converter of a field takes precedence
\* over its registration as boolean.
C20_BooleanCoercionWithoutConverter ==
    /\ Processed
    /\ HasOneParameter(event)
    /\ InboundName \in processor.BOOLEAN_FIELDS
    /\ InboundName \notin DOMAIN processor.TYPE_CONVERTERS
    => /\ ParametersReturned
       /\ StoredValue = BooleanOf(InboundValue)

\* a field registered with add_boolean_field, with a word in mixed case
C20_Witness ==
    /\ ParametersReturned
    /\ HasOneParameter(event)
    /\ InboundName = S("follow")
    /\ InboundName \in processor.BOOLEAN_FIELDS
    /\ InboundValue = JStr(<<"Y", "e", "s">>)
    /\ StoredValue = JBool(TRUE)

(***************************************************************************)
(* Claims about the route registry                                         *)
(***************************************************************************)
\* C21: normalization is idempotent and preserves the lookup: for every path
\* p with or without the action-group prefix (with one or two slashes after
\* it) and with zero to two leading slashes, normalize(normalize(p)) =
\* normalize(p), and get_handler(normalize(p)) returns what get_handler(p)
\* returns.
C21_NormalizationPreservesLookup ==
    \A p \in LookupPaths :
        LET n == NormalizePath(p.s)
        IN /\ NormalizePath(n) = n
           /\ get_handler(routes, JStr(n)) = get_handler(routes, p)

\* a key in canonical form: one leading slash and no action-group prefix
Canonical(k) ==
    /\ k.t = "str"
    /\ Len(k.s) >= 1
    /\ k.s[1] = "/"
    /\ Len(k.s) >= 2 => k.s[2] # "/"
    /\ ~Contains(k.s, <<"CloudWatchMCP", "/">>)

\* C27: after any sequence of add_route and remove_route calls every stored
\* key is in canonical form: it starts with exactly one slash and carries no
\* action-group prefix.
C27_StoredKeysCanonical ==
    \A k \in DOMAIN routes : Canonical(k)

\* what a lookup of p in the stored routes gives: the handler under the raw
\* key, else the handler under the normalized key, else nothing
StoredFor(p) ==
    IF p \in DOMAIN routes THEN routes[p]
    ELSE IF JStr(NormalizePath(p.s)) \in DOMAIN routes
         THEN routes[JStr(NormalizePath(p.s))]
         ELSE NoHandler

\* a step that is a call of remove_route
RemoveRouteReturns ==
    /\ returned'.op = "remove_route"
    /\ returned' # returned \/ routes' # routes

\* C28: after any sequence of add_route and remove_route calls,
\* get_handler(p) returns the handler stored under the raw key p when p is a
\* stored key, otherwise the handler stored under normalize(p), otherwise
\* nothing; remove_route(p) returns true exactly when p was a stored key,
\* removes only that key and leaves every other route as it was.
C28_LookupAndRemoval ==
    /\ [](returned.op = "get_handler" => returned.value = StoredFor(returned.arg))
    /\ [][RemoveRouteReturns =>
            /\ returned'.value = JBool(returned'.arg \in DOMAIN routes)
            /\ DOMAIN routes' = DOMAIN routes \ {returned'.arg}
            /\ \A k \in DOMAIN routes' : routes'[k] = routes[k]]_vars

\* the raw key and the normalized key are both stored, with different handlers
C28_Witness ==
    /\ returned.op = "get_handler"
    /\ returned.arg = JStr(<<"/", "/", "describe-log-groups">>)
    /\ returned.arg \in DOMAIN routes
    /\ Path("describe-log-groups") \in DOMAIN routes
    /\ returned.value = CustomHandler
    /\ routes[Path("describe-log-groups")] # CustomHandler

(***************************************************************************)
(* Claims about the order of the steps                                     *)
(***************************************************************************)
\* the identifier the session POST of this call returned
SessionIdentifier == DictGet(Loads(wire[1].answer.text).v, S("session_id"), None)

\* request i was answered with status 200
Answered200(i) == wire[i].answer.kind = "response" /\ wire[i].answer.status = 200

\* C23: on the direct path the requests go out in the order session POST,
\* initialize, tools/call: initialize only after the session POST returned 200
\* with a session identifier, tools/call only after initialize returned 200,
\* and both carry as mcp-session-id header exactly the identifier that
\* session POST returned.
C23_DirectPathOrder ==
    \A i \in DOMAIN wire :
        /\ wire[i].req = "session" => i = 1
        /\ wire[i].req = "initialize" =>
             /\ i = 2
             /\ wire[1].req = "session"
             /\ Answered200(1)
             /\ HasSessionIdentifier(wire[1].answer.text)
             /\ wire[i].sid = SessionIdentifier
        /\ wire[i].req = "tools/call" =>
             /\ i = 3
             /\ wire[1].req = "session"
             /\ wire[2].req = "initialize"
             /\ Answered200(2)
             /\ wire[i].sid = SessionIdentifier

C23_Witness ==
    /\ Len(wire) = 3
    /\ wire[3].req = "tools/call"
    /\ wire[3].sid = S("sid-2")
    /\ wire[2].sid = S("sid-2")

\* request i ended without what the next step needs: no response, a status
\* other than 200, or a session response without identifier
StepFailed(i) ==
    \/ ~Answered200(i)
    \/ wire[i].req = "session" /\ ~HasSessionIdentifier(wire[i].answer.text)

\* C24: no retries: within one connect_and_execute call each outbound step
\* (session POST, initialize, tools/call; legacy open, handshake, list-tools,
\* call-tool) is made at most once, and after the first failed step no
\* further request is made before the Failure is returned.
C24_NoRetries ==
    /\ \A i, j \in DOMAIN wire : wire[i].req = wire[j].req => i = j
    /\ \A i \in DOMAIN wire :
         StepFailed(i) =>
            /\ i = Len(wire)
            /\ pc \notin DirectSteps \cup LegacySteps
            /\ ClientReturned => ~result.success

C24_Witness ==
    /\ Len(wire) = 2
    /\ wire[2].req = "initialize"
    /\ wire[2].answer.status = 500
    /\ ClientReturned
    /\ ~result.success

\* the states of handle_request in their order; 0 outside handle_request
PhaseOf(p) ==
    CASE p = "extract" -> 1
      [] p = "params" -> 2
      [] p = "dispatch" -> 3
      [] p \in {"execute", "client_done"} \cup DirectSteps \cup LegacySteps -> 4
      [] p = "format" -> 5
      [] OTHER -> 0

\* a step inside handle_request goes on in the same state, enters the next
\* one, or ends the request; a request ended before FormatResponse carries an
\* error envelope
WalksInOrder ==
    PhaseOf(pc) > 0 /\ pc' # pc =>
        \/ PhaseOf(pc') \in {PhaseOf(pc), PhaseOf(pc) + 1} /\ raised' = ""
        \/ /\ pc' \in {"handled", "returned"}
           /\ pc # "format" => StatusOf(envelope') \in {404, 500}

\* a step that invokes a handler
InvokesOnce ==
    handler_calls' # handler_calls /\ pc' # "extract" /\ pc' # "returned" =>
        /\ pc = "execute"
        /\ handler_calls = 0
        /\ handler_calls' = 1
        /\ handler # NoHandler
        /\ handler = get_handler(routes, info.api_path).v

\* C26: handle_request walks ExtractInfo, ProcessParameters, Dispatch,
\* Execute, FormatResponse in this order: the route lookup happens only after
\* parameter processing completed without exception, a handler is invoked at
\* most once per event and only after the lookup returned it, and an error at
\* any state ends the request in an error envelope without entering a later
\* state.
C26_StatesInOrder ==
    /\ [](/\ pc = "dispatch" => parameters # None /\ raised = ""
          /\ handler # NoHandler => parameters # None /\ raised \in {"", "handler"}
          /\ handler_calls <= 1
          /\ handler_calls = 1 => handler # NoHandler
          /\ raised # "" => pc \in {"handled", "returned"} /\ wire = << >>
          /\ raised = "params" => handler = NoHandler
          /\ raised \in {"params", "dispatch"} => handler_calls = 0)
    /\ [][WalksInOrder /\ InvokesOnce]_vars

C26_Witness ==
    /\ pc = "handled"
    /\ raised = "params"
    /\ handler = NoHandler
    /\ StatusOf(envelope) = 500

(***************************************************************************)
(* Claims about the health check and the sessions of one client            *)
(***************************************************************************)
\* AWSApiMCPAdapter.health_check has returned its status
HealthReported == returned.op = "health_check" /\ returned.value # None

\* the status it reported
ReportedStatus == DictGet(returned.value, S("status"), None)

\* C22: the health check never raises: MCPClient.health_check and
\* AWSApiMCPAdapter.health_check report healthy exactly when the probe
\* returned Success, and unhealthy when the probe returned any Failure,
\* whether the remote server refused or the network layer raised.
C22_HealthFollowsProbe ==
    HealthReported =>
         /\ call = [tool_name |-> S("describe_log_groups"),
                    parameters |-> HealthProbeParameters]
         /\ returned.arg = JBool(result.success)
         /\ ReportedStatus = S("healthy") <=> result.success
         /\ ~result.success => ReportedStatus = S("unhealthy")
         /\ result.success <=> Len(wire) = 3 /\ Answered200(3)

\* the network layer raised during the probe
C22_Witness ==
    /\ HealthReported
    /\ LastRequest.answer.kind = "exception"
    /\ ReportedStatus = S("unhealthy")
    /\ returned.arg = JBool(FALSE)

\* C25: across any sequence of direct-path calls on the same client, every
\* call makes its own session POST and sends only the identifier that POST
\* returned; no identifier of an earlier call is sent in a later call, and
\* the client holds no session state between calls.
C25_SessionPerCall ==
    /\ pc \in {"idle", "client_done"} => session_id = None
    /\ wire # << >> => wire[1].req = "session"
    /\ pc \in {"initialize", "toolcall"} => wire # << >> /\ session_id # None
    /\ session_id # None => Answered200(1) /\ session_id = SessionIdentifier
    /\ \A i \in DOMAIN wire :
         wire[i].sid # None =>
            /\ Answered200(1)
            /\ HasSessionIdentifier(wire[1].answer.text)
            /\ wire[i].sid = SessionIdentifier

\* a later call sends its own identifier, not the one an earlier call obtained
C25_Witness ==
    /\ S("sid-1") \in earlier_sessions
    /\ S("sid-2") \notin earlier_sessions
    /\ Len(wire) = 3
    /\ wire[2].sid = S("sid-2")
    /\ wire[3].sid = S("sid-2")

(***************************************************************************)
(* Claims about instances                                                  *)
(***************************************************************************)
\* a step in which instance i registered a field
Registers(i) ==
    /\ processor' # processor
    /\ returned'.op \in {"add_type_converter", "add_boolean_field"}
    /\ returned'.value = JInt(i)

\* C29: registering an integer-coerced or boolean field on one processor
\* instance changes coercion for that instance only: for every event, the
\* result of process_parameters on any other instance is what it was before
\* the registration.
C29_RegistrationIsPerInstance ==
    [][\A i, j \in ProcessorInstances :
          Registers(i) /\ j # i =>
             \A e \in CoercionEvents, clock \in ClockReadings :
                ProcessOn(j, e, clock)' = ProcessOn(j, e, clock)]_vars


\* C30: between two reset_instance calls every call of get_adapter,
\* including calls interleaved from concurrent invocations in the same
\* process, returns the same adapter instance, and the adapter is
\* constructed at most once.
C30_OneAdapterBetweenResets ==
    /\ Cardinality(manager.returns) <= 1
    /\ manager.constructed <= 1

(***************************************************************************)
(* Claims about the results of the client and of the handlers              *)
(***************************************************************************)
\* exactly one of payload and message is present, as the success flag says
OneOfPayloadAndMessage(r) ==
    IF r.success
    THEN r.data # None /\ r.error = None
    ELSE r.error # None /\ r.data = None

\* a handler of the package has returned its result to handle_request
PackageHandlerReturned == pc = "format" /\ handler.kind # "CustomHandler"

\* C31: every MCPResponse returned by connect_and_execute or by a handler has
\* exactly one of payload and message present, as fixed by the success flag:
\* a Success has a payload and no message, a Failure a message and no payload.
C31_PayloadOrMessage ==
    ClientReturned \/ PackageHandlerReturned => OneOfPayloadAndMessage(result)


\* C32: every Failure a handler of the package (ToolCallHandler,
\* ListToolsHandler, HealthCheckHandler) hands to handle_request carries an
\* error kind of the closed enumeration ErrorType. (The clause on an
\* exception escaping the client call inside ToolCallHandler has no case:
\* connect_and_execute turns every exception into a Failure of its own.)
C32_FailureKindIsEnumerated ==
    PackageHandlerReturned /\ ~result.success => result.error_type \in ErrorType


(***************************************************************************)
(* Claims about the default route table                                    *)
(***************************************************************************)
\* the seven tool-invocation routes and the two routes of the tool listing
ToolRoutes ==
    {Path("describe-log-groups"), Path("analyze-log-group"), Path("get-metric-data"),
     Path("get-metric-metadata"), Path("get-recommended-metric-alarms"),
     Path("get-active-alarms"), Path("get-alarm-history")}
ListingRoutes == {Path("list-tools"), Path("health")}

\* the route the request of this invocation names, in canonical form
RoutePath ==
    IF info.api_path.t = "str" THEN JStr(NormalizePath(info.api_path.s)) ELSE None

\* C33: with the default route table, a request to any of the seven
\* tool-invocation routes is executed over the direct path only (the
\* handler's operation name is in the client's operation table, the legacy
\* transport is never opened), and a request to /list-tools or /health over
\* the legacy path only, with the list_tools action and without a POST to
\* the session endpoint.
C33_DefaultRoutesAndPaths ==
    routes = DefaultRoutes =>
        /\ \A k \in ToolRoutes :
             /\ RoutesGet(routes, k).kind = "ToolCallHandler"
             /\ RoutesGet(routes, k).rest_style
             /\ UsesDirectPath(RoutesGet(routes, k).tool_name)
        /\ ClientEntered /\ RoutePath \in ToolRoutes =>
             /\ UsesDirectPath(call.tool_name)
             /\ RequestsMade \subseteq DirectRequests
             /\ pc \notin LegacySteps
        /\ ClientEntered /\ RoutePath \in ListingRoutes =>
             /\ call.tool_name = S("list_tools")
             /\ RequestsMade \subseteq {"open", "legacy_initialize", "list_tools"}
             /\ pc \notin DirectSteps

\* /health, written with two leading slashes, has listed the tools
C33_Witness ==
    /\ routes = DefaultRoutes
    /\ info.api_path = JStr(<<"/", "/", "health">>)
    /\ RoutePath = Path("health")
    /\ ClientReturned
    /\ LastRequest.req = "list_tools"
    /\ result.success


(***************************************************************************)
(* Claims about the order of the stores                                    *)
(***************************************************************************)
\* the entries of the flat list of the event
FlatEntries == DictGet(event, S("parameters"), JList(<< >>)).items

\* the JSON content of the request body of the event
JsonContent ==
    DictGet(DictGet(DictGet(event, S("requestBody"), EmptyDict),
                    S("content"), EmptyDict),
            S("application/json"), None)

\* the entries of the request body: those of {properties: [...]} or of a
\* list, none for any other shape
BodyEntries ==
    IF JsonContent.t = "list" THEN JsonContent.items
    ELSE IF /\ JsonContent.t = "obj"
            /\ DictGet(JsonContent, S("properties"), None).t = "list"
    THEN DictGet(JsonContent, S("properties"), None).items
    ELSE << >>

\* the request body has a JSON content that is neither shape
BodyOfOtherShape ==
    /\ JsonContent # None
    /\ JsonContent.t # "list"
    /\ DictGet(JsonContent, S("properties"), None).t # "list"

\* every entry in the order of the stores
Occurrences == FlatEntries \o BodyEntries
NameOf(entry) == DictGet(entry, S("name"), None)
OccurringNames == {NameOf(Occurrences[i]) : i \in DOMAIN Occurrences}

\* the last entry that carries the name
LastOccurrence(name) ==
    Occurrences[CHOOSE i \in DOMAIN Occurrences :
                   /\ NameOf(Occurrences[i]) = name
                   /\ \A j \in DOMAIN Occurrences : NameOf(Occurrences[j]) = name => j <= i]

\* process_parameters on an event whose only parameter is the entry
StoredAlone(entry) ==
    process_parameters(
        processor.TYPE_CONVERTERS, processor.BOOLEAN_FIELDS,
        Event(Path("describe-log-groups"), S("POST"),
              <<S("parameters")>>, <<JList(<<entry>>)>>),
        CHOOSE clock \in ClockReadings : TRUE)

\* C34: process_parameters stores the entries in order, the flat list first
\* and the request-body list after it, each store overwriting an earlier
\* value of the same name: the last occurrence of a name wins, a request-body
\* value overrides a flat-list value of the same name, and a request body
\* whose JSON content is neither {properties: [...]} nor a list stores
\* nothing and raises nothing. process_parameters raises only when the store
\* of one of the entries raises by itself.
C34_LastOccurrenceWins ==
    event \in OrderEvents /\ Processed =>
        /\ raised = "params" <=>
             \E i \in DOMAIN Occurrences : StoredAlone(Occurrences[i]).raised
        /\ ParametersReturned =>
             /\ KeysOf(parameters) = OccurringNames \cup {S("ctx")}
             /\ \A n \in OccurringNames :
                  DictGet(parameters, n, None) =
                      DictGet(StoredAlone(LastOccurrence(n)).v, n, None)
             /\ BodyOfOtherShape =>
                  KeysOf(parameters) =
                      {NameOf(FlatEntries[i]) : i \in DOMAIN FlatEntries} \cup {S("ctx")}

\* a request-body value has replaced the flat-list value of the same name
C34_Witness ==
    /\ event \in OrderEvents
    /\ ParametersReturned
    /\ Len(FlatEntries) = 1
    /\ Len(BodyEntries) = 1
    /\ FlatEntries[1] = NameValue(S("max_items"), S("abc"))
    /\ BodyEntries[1] = NameValue(S("max_items"), JStr(<<"2", "5">>))
    /\ DictGet(parameters, S("max_items"), None) = JInt(25)

=============================================================================
